---------------------------- MODULE Spec2Model ----------------------------
(***************************************************************************)
(* vidhub backend: the three mutex-guarded registries (rate limiter,       *)
(* quota tracker, storage manager) and the download admission path.        *)
(*                                                                         *)
(* Time is a discrete clock `now`.  One tick is an arbitrary unit; the     *)
(* durations of the code (time.Minute, 2*time.Hour, one day, the file TTL) *)
(* are given in ticks.  time.Time.After / Before are the strict < and >.   *)
(* A handler whose whole body runs under the service's mutex is one        *)
(* action; each registry has its own specification, the variables of the   *)
(* other registries staying at their initial values.                       *)
(***************************************************************************)
EXTENDS Integers, Sequences, FiniteSets, TLC

VARIABLES
    now,          \* time.Now()
    rateEnabled,  \* RateLimitConfig.Enabled
    limits,       \* RateLimitService.limits: ip -> RateLimitEntry
    rlCall,       \* the rate limiter call the last step made, with its result
    rlWin,        \* history: per ip, the window its calls fall in
    rlKept,       \* history: the entries the map would hold had cleanup never run
    quotaEnabled, \* QuotaConfig.Enabled
    quotas,       \* QuotaService.quotas: ip -> QuotaEntry
    qCall,        \* the quota call the last step made, with its result
    qSum,         \* history: per ip, the MB added since the clock last passed a reset instant
    mu,           \* QuotaService.mu: 0 (free) or the goroutine holding the write lock
    pc,           \* per goroutine, where it is in AddUsage
    arg,          \* per goroutine, the ip of its AddUsage call
    seen,         \* per goroutine, the UsedMB it read (-1: no entry)
    done,         \* history: per ip, the AddUsage(ip, 1) calls that have returned
    crossed,      \* history: per ip, a reset instant has passed since its first AddUsage began
    files,        \* storage Manager.files: id -> DownloadedFile
    disk,         \* the paths of the download directory that hold a file
    sCall,        \* the storage call the last step made, with its result
    regAt,        \* history: per id, when its last SaveFile read the clock for ExpiresAt (-1: never)
    rpc,          \* per request, where it is in StartDownload / Download / SaveFile
    req,          \* per request, its client ip and the DownloadedFile it is building
    hist,         \* history: per request, what it has done so far
    aCall,        \* the response the last step sent, if it sent one
    loop,         \* where the storage manager's cleanupRoutine goroutine is
    stop,         \* what became of Manager.Stop's send: "no" (not called), "sent", "dropped"
    cpc,          \* per goroutine, where it is in CheckQuota
    cl,           \* per goroutine, the locals of its CheckQuota call
    smu,          \* storage Manager.mu: "free" or the goroutine holding the write lock
    spc,          \* per goroutine, where it is in cleanupExpiredFiles
    sl,           \* per goroutine, the locals of its cleanupExpiredFiles call
    routine,      \* per service, where its resetRoutine / cleanupRoutine goroutine is
    stopping,     \* per service, where the running call of its Stop is
    stops         \* history: per service, the calls of its Stop that have returned

rateVars == <<rateEnabled, limits, rlCall, rlWin, rlKept>>

quotaVars == <<quotaEnabled, quotas, qCall, qSum>>

commitVars == <<mu, pc, arg, seen, done, crossed>>

storVars == <<files, disk, sCall, regAt>>

admVars == <<rpc, req, hist, aCall>>

loopVars == <<loop, stop>>

checkVars == <<cpc, cl>>

sweepVars == <<smu, spc, sl>>

stopVars == <<routine, stopping, stops>>

(***************************************************************************)
(* Bounds of the model.                                                    *)
(***************************************************************************)
RateMaxTime == 3        \* the clock of the rate limiter's specification stops here
QuotaMaxTime == 5       \* the clock of the quota tracker's specifications stops here
MinuteTicks == 1        \* time.Minute in ticks
TwoHourTicks == 1       \* 2*time.Hour in ticks
RequestsPerMinute == 2  \* RateLimitConfig.RequestsPerMinute
BurstSize == 1          \* RateLimitConfig.BurstSize
DayTicks == 3           \* one day in ticks
ResetOffset == 1        \* QuotaConfig.ResetHour:ResetMinute, in ticks after midnight
DailyLimitMB == 2       \* QuotaConfig.DailyLimitMB
MaxSizeMB == 2          \* the largest sizeMB / requestedSizeMB of a call
NumCallers == 2         \* concurrent callers of AddUsage
MaxCommits == 3         \* AddUsage calls made by the concurrent callers in total
StorMaxTime == 3        \* the clock of the storage manager's specification stops here
AdmMaxTime == 2         \* the clock of the admission path's specification stops here
FileTTLTicks == 2       \* StorageConfig.FileTTLSeconds in ticks
MaxVideoSizeMB == 1     \* StorageConfig.MaxVideoSizeMB
CheckMaxTime == 2       \* the clock of the step-by-step CheckQuota specification stops here
GateMaxTime == 4        \* the clock of the rate-limited admission specification stops here
MaxStops == 2           \* calls of Stop made on one service
StopMaxTime == 3        \* the clock of the services' Stop specification stops here

IPs == {"ip1", "ip2"}

None == [op |-> "none"]

(***************************************************************************)
(* Rate limiter (RateLimitService).                                        *)
(***************************************************************************)

\* An entry that does not count the call that creates it.
NewRateEntryUncounted(t) ==
    [Requests |-> 0, ResetAt |-> t + MinuteTicks, Blocked |-> FALSE]

\* &RateLimitEntry{Requests: 1, ResetAt: now.Add(time.Minute), Blocked: false}
NewRateEntry(t) ==
    [Requests |-> 1, ResetAt |-> t + MinuteTicks, Blocked |-> FALSE]

\* A limiter whose window is over at its end instant (>= for >).
RateWindowPassedAtEnd(e, t) ==
    t >= e.ResetAt

\* now.After(entry.ResetAt)
RateWindowPassed(e, t) ==
    t > e.ResetAt

\* History: the window (of length one minute, opened by the first call seen
\* for the key) a call at time t falls in.  A call opens a new window when the
\* key has none or when t is past the end of its window; a call at exactly
\* the end is not put in a new window here and is told apart by at < end.
\* n counts the calls of the window, saturating at CountCap.
CountCap == RequestsPerMinute + BurstSize + 2

OpensWindow(ip, t) ==
    ip \notin DOMAIN rlWin \/ t > rlWin[ip].end

WinAfter(ip, op, t) ==
    IF OpensWindow(ip, t)
    THEN [end |-> t + MinuteTicks, n |-> 1, ops |-> {op}]
    ELSE [end |-> rlWin[ip].end,
          n |-> IF rlWin[ip].n < CountCap THEN rlWin[ip].n + 1 ELSE CountCap,
          ops |-> rlWin[ip].ops \cup {op}]

RecordCall(ip, op, ret) ==
    LET w == WinAfter(ip, op, now)
    IN  /\ rlWin' = [k \in DOMAIN rlWin \cup {ip} |-> IF k = ip THEN w ELSE rlWin[k]]
        /\ rlCall' = [op |-> op, ip |-> ip, ret |-> ret,
                      first |-> OpensWindow(ip, now), inside |-> now < w.end,
                      n |-> w.n, ops |-> w.ops]

\* A limiter in which a call denied on a blocked entry starts the minute
\* again.
BlockedEntryExtended(e, t) ==
    [e EXCEPT !.ResetAt = t + MinuteTicks]

\* if entry.Blocked { return false }: the entry is left as it is
BlockedEntry(e, t) ==
    e

\* A limiter in which a call heeds the latch only when the count is above
\* its own threshold, and goes on counting otherwise.
EntryAfterCallOwnLatch(e, t, threshold) ==
    IF RateWindowPassed(e, t) THEN NewRateEntry(t)
    ELSE IF e.Blocked /\ e.Requests > threshold THEN e
    ELSE IF e.Requests + 1 > threshold
         THEN [e EXCEPT !.Requests = e.Requests + 1, !.Blocked = TRUE]
         ELSE [e EXCEPT !.Requests = e.Requests + 1]

\* The threshold state machine shared by IsAllowed and AllowBurst: the entry
\* after a call at time t on existing entry e, and the value returned.
EntryAfterCall(e, t, threshold) ==
    IF RateWindowPassed(e, t) THEN NewRateEntry(t)
    ELSE IF e.Blocked THEN BlockedEntry(e, t)
    ELSE IF e.Requests + 1 > threshold
         THEN [e EXCEPT !.Requests = e.Requests + 1, !.Blocked = TRUE]
         ELSE [e EXCEPT !.Requests = e.Requests + 1]

\* A limiter that does not look at the latch and compares the count before
\* the increment.
ReturnOfCallNoLatch(e, t, threshold) ==
    IF RateWindowPassed(e, t) THEN TRUE
    ELSE ~(e.Requests > threshold)

ReturnOfCall(e, t, threshold) ==
    IF RateWindowPassed(e, t) THEN TRUE
    ELSE IF e.Blocked THEN FALSE
    ELSE ~(e.Requests + 1 > threshold)

LimitedCall(ip, op, threshold) ==
    /\ rateEnabled
    /\ IF ip \notin DOMAIN limits
       THEN /\ limits' = [k \in DOMAIN limits \cup {ip} |->
                              IF k = ip THEN NewRateEntry(now) ELSE limits[k]]
            /\ RecordCall(ip, op, TRUE)
       ELSE /\ limits' = [limits EXCEPT ![ip] = EntryAfterCall(limits[ip], now, threshold)]
            /\ RecordCall(ip, op, ReturnOfCall(limits[ip], now, threshold))
    /\ rlKept' = [k \in DOMAIN rlKept \cup {ip} |->
                     IF k # ip THEN rlKept[k]
                     ELSE IF ip \notin DOMAIN rlKept THEN NewRateEntry(now)
                     ELSE EntryAfterCall(rlKept[ip], now, threshold)]
    /\ UNCHANGED <<now, rateEnabled>>

\* if !rls.cfg.Enabled { return true }
DisabledCall(ip, op, ret) ==
    /\ ~rateEnabled
    /\ rlCall' = [op |-> op, ip |-> ip, ret |-> ret]
    /\ UNCHANGED <<now, rateEnabled, limits, rlWin, rlKept>>

\* A limiter that trips one request early (>= for >).
IsAllowedThresholdEarly == RequestsPerMinute - 1

\* if entry.Requests > rls.cfg.RequestsPerMinute
IsAllowedThreshold == RequestsPerMinute

IsAllowed(ip) ==
    \/ DisabledCall(ip, "IsAllowed", TRUE)
    \/ LimitedCall(ip, "IsAllowed", IsAllowedThreshold)

\* A burst limiter that forgets the burst size.
AllowBurstThresholdNoBurst == RequestsPerMinute

\* limit := rls.cfg.RequestsPerMinute + rls.cfg.BurstSize
AllowBurstThreshold == RequestsPerMinute + BurstSize

AllowBurst(ip) ==
    \/ DisabledCall(ip, "AllowBurst", TRUE)
    \/ LimitedCall(ip, "AllowBurst", AllowBurstThreshold)

\* A GetRemaining without the floor at 0.
RemainingOfNoFloor(ip, t) ==
    IF ~rateEnabled THEN -1
    ELSE IF ip \notin DOMAIN limits THEN RequestsPerMinute
    ELSE IF RateWindowPassed(limits[ip], t) THEN RequestsPerMinute
    ELSE RequestsPerMinute - limits[ip].Requests

\* GetRemaining: what it returns for ip at time t.
RemainingOf(ip, t) ==
    IF ~rateEnabled THEN -1
    ELSE IF ip \notin DOMAIN limits THEN RequestsPerMinute
    ELSE IF RateWindowPassed(limits[ip], t) THEN RequestsPerMinute
    ELSE IF RequestsPerMinute - limits[ip].Requests < 0 THEN 0
    ELSE RequestsPerMinute - limits[ip].Requests

GetRemaining(ip) ==
    /\ rlCall' = [op |-> "GetRemaining", ip |-> ip, ret |-> RemainingOf(ip, now)]
    /\ UNCHANGED <<now, rateEnabled, limits, rlWin, rlKept>>

\* A cleanup that takes an entry at the horizon itself (>= for >).
RateEntryStaleAtHorizon(e, t) ==
    t - e.ResetAt >= TwoHourTicks

\* now.Sub(entry.ResetAt) > 2*time.Hour
RateEntryStale(e, t) ==
    t - e.ResetAt > TwoHourTicks

\* A cleanup that empties the map.
cleanupEveryEntry ==
    /\ rateEnabled
    /\ limits' = << >>
    /\ rlCall' = None
    /\ UNCHANGED <<now, rateEnabled, rlWin, rlKept>>

\* cleanup, run by cleanupRoutine on every tick of its ticker.
cleanup ==
    /\ rateEnabled
    /\ limits' = [k \in {i \in DOMAIN limits : ~RateEntryStale(limits[i], now)} |-> limits[k]]
    /\ rlCall' = None
    /\ UNCHANGED <<now, rateEnabled, rlWin, rlKept>>

\* A Reset that leaves a blocked key's entry in place.
ResetUnlessBlocked(ip) ==
    /\ rateEnabled
    /\ limits' = [k \in DOMAIN limits \ {i \in {ip} \cap DOMAIN limits : ~limits[i].Blocked} |-> limits[k]]
    /\ rlWin' = [k \in DOMAIN rlWin \ {ip} |-> rlWin[k]]
    /\ rlKept' = [k \in DOMAIN rlKept \ {ip} |-> rlKept[k]]
    /\ rlCall' = [op |-> "Reset", ip |-> ip,
                  blocked |-> ip \in DOMAIN limits /\ limits[ip].Blocked]
    /\ UNCHANGED <<now, rateEnabled>>

\* Reset (admin operation): delete(rls.limits, ip).  blocked (history): the
\* key had an entry with Blocked set.
Reset(ip) ==
    /\ rateEnabled
    /\ limits' = [k \in DOMAIN limits \ {ip} |-> limits[k]]
    /\ rlWin' = [k \in DOMAIN rlWin \ {ip} |-> rlWin[k]]
    /\ rlKept' = [k \in DOMAIN rlKept \ {ip} |-> rlKept[k]]
    /\ rlCall' = [op |-> "Reset", ip |-> ip,
                  blocked |-> ip \in DOMAIN limits /\ limits[ip].Blocked]
    /\ UNCHANGED <<now, rateEnabled>>

\* The clock advances.
TickRate ==
    /\ now < RateMaxTime
    /\ now' = now + 1
    /\ rlCall' = None
    /\ UNCHANGED <<rateEnabled, limits, rlWin, rlKept>>

\* NewRateLimitService: an empty map.
RateStart ==
    /\ limits = << >>
    /\ rlCall = None
    /\ rlWin = << >>
    /\ rlKept = << >>

(***************************************************************************)
(* Quota tracker (QuotaService).                                           *)
(***************************************************************************)

\* calculateResetTime: today's ResetHour:ResetMinute, or tomorrow's when
\* resetTime.Before(now).
calculateResetTime(t) ==
    LET today == (t \div DayTicks) * DayTicks + ResetOffset
    IN  IF today < t THEN today + DayTicks ELSE today

\* now.After(entry.ResetTime)
QuotaWindowPassed(e, t) ==
    t > e.ResetTime

\* &QuotaEntry{UsedMB: used, ResetTime: calculateResetTime()}.  The entry's
\* IP is its key; LastUpdate is written and never read, and is left out.
NewQuotaEntry(used, t) ==
    [UsedMB |-> used, ResetTime |-> calculateResetTime(t)]

\* The entry CheckQuota works on: created when absent, reset when its
\* ResetTime has passed.
EntryForCheck(ip, t) ==
    LET e == IF ip \in DOMAIN quotas THEN quotas[ip] ELSE NewQuotaEntry(0, t)
    IN  IF QuotaWindowPassed(e, t) THEN NewQuotaEntry(0, t) ELSE e

\* A check that lets a request through when nothing remains (< for <=).
CheckQuotaResultLax(used, requestedSizeMB) ==
    LET remaining == DailyLimitMB - used
    IN  IF remaining < 0 THEN <<FALSE, 0>>
        ELSE IF requestedSizeMB > remaining THEN <<FALSE, remaining>>
        ELSE <<TRUE, remaining>>

\* remaining := DailyLimitMB - entry.UsedMB and the three returns of CheckQuota
CheckQuotaResult(used, requestedSizeMB) ==
    LET remaining == DailyLimitMB - used
    IN  IF remaining <= 0 THEN <<FALSE, 0>>
        ELSE IF requestedSizeMB > remaining THEN <<FALSE, remaining>>
        ELSE <<TRUE, remaining>>

CheckQuota(ip, requestedSizeMB) ==
    \/ /\ ~quotaEnabled
       /\ qCall' = [op |-> "CheckQuota", ip |-> ip, req |-> requestedSizeMB,
                    ret |-> <<TRUE, DailyLimitMB>>]
       /\ UNCHANGED <<now, quotaEnabled, quotas, qSum>>
    \/ /\ quotaEnabled
       /\ LET e == EntryForCheck(ip, now)
          IN  /\ quotas' = [k \in DOMAIN quotas \cup {ip} |-> IF k = ip THEN e ELSE quotas[k]]
              /\ qCall' = [op |-> "CheckQuota", ip |-> ip, req |-> requestedSizeMB,
                           ret |-> CheckQuotaResult(e.UsedMB, requestedSizeMB)]
       /\ UNCHANGED <<now, quotaEnabled, qSum>>

\* The usage counter stops growing at UsedCap.
UsedCap == DailyLimitMB + 2

\* An AddUsage that looks at the limit and stops the usage there.
EntryAfterAddClamped(q, ip, sizeMB, t) ==
    LET used == (IF ip \in DOMAIN q THEN q[ip].UsedMB ELSE 0) + sizeMB
        e == IF ip \in DOMAIN q THEN q[ip] ELSE NewQuotaEntry(0, t)
    IN  [e EXCEPT !.UsedMB = IF used > DailyLimitMB THEN DailyLimitMB ELSE used]

\* The entry of ip after AddUsage(ip, sizeMB) at time t.
EntryAfterAdd(q, ip, sizeMB, t) ==
    IF ip \notin DOMAIN q
    THEN NewQuotaEntry(sizeMB, t)
    ELSE [q[ip] EXCEPT !.UsedMB = q[ip].UsedMB + sizeMB]

AddUsage(ip, sizeMB) ==
    \/ /\ ~quotaEnabled
       /\ qCall' = [op |-> "AddUsage", ip |-> ip, size |-> sizeMB]
       /\ UNCHANGED <<now, quotaEnabled, quotas, qSum>>
    \/ /\ quotaEnabled
       /\ EntryAfterAdd(quotas, ip, sizeMB, now).UsedMB <= UsedCap
       /\ quotas' = [k \in DOMAIN quotas \cup {ip} |->
                        IF k = ip THEN EntryAfterAdd(quotas, ip, sizeMB, now) ELSE quotas[k]]
       /\ qSum' = [qSum EXCEPT ![ip] = qSum[ip] + sizeMB]
       /\ qCall' = [op |-> "AddUsage", ip |-> ip, size |-> sizeMB]
       /\ UNCHANGED <<now, quotaEnabled>>

\* The map GetQuotaInfo returns.
QuotaInfoOf(ip, t) ==
    IF ~quotaEnabled THEN [enabled |-> FALSE]
    ELSE IF ip \notin DOMAIN quotas
    THEN [enabled |-> TRUE, used_mb |-> 0, limit_mb |-> DailyLimitMB,
          remaining_mb |-> DailyLimitMB, reset_time |-> calculateResetTime(t)]
    ELSE [enabled |-> TRUE, used_mb |-> quotas[ip].UsedMB, limit_mb |-> DailyLimitMB,
          remaining_mb |-> IF DailyLimitMB - quotas[ip].UsedMB < 0 THEN 0
                           ELSE DailyLimitMB - quotas[ip].UsedMB,
          reset_time |-> quotas[ip].ResetTime]

GetQuotaInfo(ip) ==
    /\ qCall' = [op |-> "GetQuotaInfo", ip |-> ip, ret |-> QuotaInfoOf(ip, now)]
    /\ UNCHANGED <<now, quotaEnabled, quotas, qSum>>

\* checkAndResetQuotas, run by resetRoutine on every tick of its ticker.
checkAndResetQuotas ==
    /\ quotaEnabled
    /\ quotas' = [k \in DOMAIN quotas |->
                     IF QuotaWindowPassed(quotas[k], now) THEN NewQuotaEntry(0, now)
                     ELSE quotas[k]]
    /\ qCall' = None
    /\ UNCHANGED <<now, quotaEnabled, qSum>>

\* The configured reset instant of some day.
IsResetInstant(t) ==
    t % DayTicks = ResetOffset

\* The clock advances; leaving a reset instant behind starts a new window.
TickQuota ==
    /\ now < QuotaMaxTime
    /\ now' = now + 1
    /\ qSum' = IF IsResetInstant(now) THEN [k \in IPs |-> 0] ELSE qSum
    /\ qCall' = None
    /\ UNCHANGED <<quotaEnabled, quotas>>

\* NewQuotaService: an empty map.
QuotaStart ==
    /\ quotas = << >>
    /\ qCall = None
    /\ qSum = [k \in IPs |-> 0]

(***************************************************************************)
(* AddUsage step by step, for concurrent callers: qs.mu.Lock(), the read   *)
(* of the entry, the write, and the deferred Unlock with the return.       *)
(***************************************************************************)
Callers == 1..NumCallers

\* A service whose Lock never waits.
MuFreeNoLock == TRUE

\* qs.mu.Lock() can be taken
MuFree == mu = 0

Touched(ip) ==
    done[ip] > 0 \/ \E p \in Callers : pc[p] # "idle" /\ arg[p] = ip

CallsBegun ==
    done["ip1"] + done["ip2"] + Cardinality({p \in Callers : pc[p] # "idle"})

\* AddUsage(ip, 1) is called (quota enabled).
AddUsageCall(p, ip) ==
    /\ pc[p] = "idle"
    /\ CallsBegun < MaxCommits
    /\ pc' = [pc EXCEPT ![p] = "lock"]
    /\ arg' = [arg EXCEPT ![p] = ip]
    /\ UNCHANGED <<now, quotaVars, mu, seen, done, crossed>>

\* qs.mu.Lock()
AddUsageLock(p) ==
    /\ pc[p] = "lock"
    /\ MuFree
    /\ mu' = p
    /\ pc' = [pc EXCEPT ![p] = "read"]
    /\ UNCHANGED <<now, quotaVars, arg, seen, done, crossed>>

\* entry, exists := qs.quotas[ip], and the read of entry.UsedMB
AddUsageRead(p) ==
    /\ pc[p] = "read"
    /\ seen' = [seen EXCEPT ![p] =
                   IF arg[p] \in DOMAIN quotas THEN quotas[arg[p]].UsedMB ELSE -1]
    /\ pc' = [pc EXCEPT ![p] = "write"]
    /\ UNCHANGED <<now, quotaVars, mu, arg, done, crossed>>

\* The new entry is stored, or entry.UsedMB is written; Unlock and return.
AddUsageWrite(p) ==
    /\ pc[p] = "write"
    /\ quotas' = [k \in DOMAIN quotas \cup {arg[p]} |->
                     IF k # arg[p] THEN quotas[k]
                     ELSE IF seen[p] = -1 THEN NewQuotaEntry(1, now)
                     ELSE [quotas[k] EXCEPT !.UsedMB = seen[p] + 1]]
    /\ mu' = 0
    /\ pc' = [pc EXCEPT ![p] = "idle"]
    /\ done' = [done EXCEPT ![arg[p]] = done[arg[p]] + 1]
    /\ UNCHANGED <<now, quotaEnabled, qCall, qSum, arg, seen, crossed>>

\* checkAndResetQuotas takes the lock for its whole body.
SweepCommit ==
    /\ MuFree
    /\ checkAndResetQuotas
    /\ UNCHANGED commitVars

TickCommit ==
    /\ now < QuotaMaxTime
    /\ now' = now + 1
    /\ crossed' = [ip \in IPs |-> crossed[ip] \/ (IsResetInstant(now) /\ Touched(ip))]
    /\ UNCHANGED <<quotaVars, mu, pc, arg, seen, done>>

CommitStart ==
    /\ mu = 0
    /\ pc = [p \in Callers |-> "idle"]
    /\ arg = [p \in Callers |-> "ip1"]
    /\ seen = [p \in Callers |-> -1]
    /\ done = [ip \in IPs |-> 0]
    /\ crossed = [ip \in IPs |-> FALSE]

(***************************************************************************)
(* Storage manager (storage.Manager) and the download path that feeds it:  *)
(* DownloadHandler.StartDownload calls DownloadService.Download, which      *)
(* fetches the file from the worker, writes it under the download           *)
(* directory and registers it with SaveFile.  A request is a goroutine; its *)
(* steps are the accesses it makes to the shared state (the quota service,  *)
(* the directory, the clock, the manager's map), each under its own lock.   *)
(* GetDownloadPath joins the directory and the filename, so a path stands   *)
(* for a filename.  The id Download passes to SaveFile is the decimal       *)
(* UnixNano reading of the clock; here it is any id of FileIDs, two         *)
(* requests that read the same nanosecond getting the same one.             *)
(***************************************************************************)
Paths == {"a", "b"}

FileIDs == {"f1", "f2"}

Reqs == {"r1", "r2", "r3"}

\* int64(m.cfg.MaxVideoSizeMB) * 1024 * 1024, and 1024 * 1024 in StartDownload
MiB == 1024 * 1024

\* The sizes in bytes a fetched file or a declared FileSize can have.
FileSizes == {0, 1, 1024, MaxVideoSizeMB * MiB + 1}

\* ValidateFileSize
ValidateFileSize(sizeBytes) ==
    sizeBytes <= MaxVideoSizeMB * MiB

\* A request that is not running; the fields hold placeholders.
NoReq ==
    [ip |-> "ip1", FilePath |-> "a", Size |-> 0, ID |-> "f1", CreatedAt |-> 0, ExpiresAt |-> 0]

NoHist ==
    [fetched |-> FALSE, registered |-> FALSE, committed |-> FALSE, stampedAt |-> -1]

\* The DownloadedFile a request hands to the map.  Its ID is its key, its
\* Filename is its FilePath without the directory, its URL is not read.
FileOf(q) ==
    [FilePath |-> q.FilePath, Size |-> q.Size, CreatedAt |-> q.CreatedAt, ExpiresAt |-> q.ExpiresAt]

\* The step makes no call to the quota service.
NoQuotaCall ==
    /\ qCall' = None
    /\ UNCHANGED <<quotaEnabled, quotas, qSum>>

\* c.JSON(status, model.ErrorResponse{Error: error, Code: status}), or the 200
\* response (error "").  reason (history): why the request got this answer.
Response(r, ip, status, error, reason) ==
    [op |-> "StartDownload", r |-> r, ip |-> ip, status |-> status,
     error |-> error, reason |-> reason]

\* The request returns.
Return(r) ==
    /\ rpc' = [rpc EXCEPT ![r] = "idle"]
    /\ req' = [req EXCEPT ![r] = NoReq]
    /\ hist' = [hist EXCEPT ![r] = NoHist]

\* The request moves on to pc.
Goto(r, to) ==
    /\ rpc' = [rpc EXCEPT ![r] = to]
    /\ aCall' = None

\* StartDownload from the check of the declared FileSize to the quota check:
\* 413 when FileSize exceeds the maximum; with quota enabled CheckQuota(ip, 0),
\* whose (false, 0) leads to the 402 response.
StartDownload(r, ip, fileSize) ==
    /\ rpc[r] = "idle"
    /\ sCall' = None
    /\ UNCHANGED <<now, files, disk, regAt, hist>>
    /\ IF fileSize > 0 /\ fileSize > MaxVideoSizeMB * MiB
       THEN /\ aCall' = Response(r, ip, 413, "file_too_large", "SizeExceeded")
            /\ NoQuotaCall
            /\ UNCHANGED <<rpc, req>>
       ELSE /\ req' = [req EXCEPT ![r] = [NoReq EXCEPT !.ip = ip]]
            /\ IF quotaEnabled
               THEN /\ CheckQuota(ip, 0)
                    /\ Goto(r, IF ~qCall'.ret[1] /\ qCall'.ret[2] = 0
                               THEN "exhausted" ELSE "admitted")
               ELSE /\ Goto(r, "admitted")
                    /\ NoQuotaCall

\* The step makes no call to the rate limiter.
NoRateCall ==
    /\ rlCall' = None
    /\ UNCHANGED <<rateEnabled, limits, rlWin, rlKept>>

\* A middleware that hands the request on whatever IsAllowed returned.
RateLimitMiddlewareNoAbort(r, ip, fileSize) ==
    /\ rpc[r] = "idle"
    /\ IsAllowed(ip)
    /\ StartDownload(r, ip, fileSize)

\* RateLimitMiddleware in front of POST /api/download: IsAllowed(ip); on
\* false the 429 response and c.Abort(), else c.Next(), which runs
\* StartDownload up to its quota check.  (The GetRemaining read for the
\* X-RateLimit-Remaining header changes nothing and is left out.)
RateLimitMiddleware(r, ip, fileSize) ==
    /\ rpc[r] = "idle"
    /\ IsAllowed(ip)
    /\ IF rlCall'.ret
       THEN StartDownload(r, ip, fileSize)
       ELSE /\ aCall' = [op |-> "StartDownload", r |-> r, ip |-> ip, status |-> 429,
                         error |-> "rate_limit_exceeded", reason |-> "RateLimited"]
            /\ sCall' = None
            /\ NoQuotaCall
            /\ UNCHANGED <<files, disk, regAt, rpc, req, hist>>

\* The clock advances (rate-limited admission specification).
TickGate ==
    /\ now < GateMaxTime
    /\ now' = now + 1
    /\ qSum' = IF IsResetInstant(now) THEN [k \in IPs |-> 0] ELSE qSum
    /\ qCall' = None
    /\ sCall' = None
    /\ aCall' = None
    /\ NoRateCall
    /\ UNCHANGED <<quotaEnabled, quotas, files, disk, regAt, rpc, req, hist>>

\* quotaInfo := GetQuotaInfo(clientIP) and the 402 response
QuotaExhausted(r) ==
    /\ rpc[r] = "exhausted"
    /\ GetQuotaInfo(req[r].ip)
    /\ aCall' = Response(r, req[r].ip, 402, "quota_exhausted", "QuotaExceeded")
    /\ Return(r)
    /\ sCall' = None
    /\ UNCHANGED <<files, disk, regAt>>

\* Download: the POST to the worker and readDownloadResponse, which fail or
\* give a filename and the file's bytes, then ValidateFileSize.  An error
\* makes StartDownload answer 500.
DownloadFetch(r, ok, path, size) ==
    /\ rpc[r] = "admitted"
    /\ sCall' = None
    /\ NoQuotaCall
    /\ UNCHANGED <<now, files, disk, regAt>>
    /\ IF ok /\ ValidateFileSize(size)
       THEN /\ req' = [req EXCEPT ![r].FilePath = path, ![r].Size = size]
            /\ hist' = [hist EXCEPT ![r].fetched = TRUE]
            /\ Goto(r, "fetched")
       ELSE /\ aCall' = Response(r, req[r].ip, 500, "download_failed",
                                  IF ok THEN "SizeExceeded" ELSE "UpstreamFailure")
            /\ Return(r)

\* os.WriteFile(downloadPath, fileDataBytes, 0644)
DownloadWrite(r, ok) ==
    /\ rpc[r] = "fetched"
    /\ sCall' = None
    /\ NoQuotaCall
    /\ UNCHANGED <<now, files, regAt>>
    /\ IF ok
       THEN /\ disk' = disk \cup {req[r].FilePath}
            /\ Goto(r, "written")
            /\ UNCHANGED <<req, hist>>
       ELSE /\ aCall' = Response(r, req[r].ip, 500, "download_failed", "WriteFailure")
            /\ Return(r)
            /\ UNCHANGED disk

\* What GetFile returns: the record, or nothing.
FileAt(id) ==
    IF id \in DOMAIN files THEN <<files[id]>> ELSE << >>

\* downloadID := UnixNano, then SaveFile: file.ID = id; file.CreatedAt = time.Now()
SaveFileCreatedAt(r, id) ==
    /\ rpc[r] = "written"
    /\ req' = [req EXCEPT ![r].ID = id, ![r].CreatedAt = now]
    /\ Goto(r, "created")
    /\ sCall' = None
    /\ NoQuotaCall
    /\ UNCHANGED <<now, files, disk, regAt, hist>>

\* time.Now().Add(time.Duration(m.cfg.FileTTLSeconds) * time.Second)
ExpiryOf(t) ==
    t + FileTTLTicks

\* SaveFile: file.ExpiresAt = ..., a second reading of the clock
SaveFileExpiresAt(r) ==
    /\ rpc[r] = "created"
    /\ req' = [req EXCEPT ![r].ExpiresAt = ExpiryOf(now)]
    /\ hist' = [hist EXCEPT ![r].stampedAt = now]
    /\ Goto(r, "stamped")
    /\ sCall' = None
    /\ NoQuotaCall
    /\ UNCHANGED <<now, files, disk, regAt>>

\* A SaveFile that keeps the record an id already has.
SaveFileKeepFirst(r) ==
    /\ rpc[r] = "stamped"
    /\ files' = [k \in DOMAIN files \cup {req[r].ID} |->
                    IF k \in DOMAIN files THEN files[k] ELSE FileOf(req[r])]
    /\ regAt' = [regAt EXCEPT ![req[r].ID] = hist[r].stampedAt]
    /\ hist' = [hist EXCEPT ![r].registered = TRUE]
    /\ Goto(r, "saved")
    /\ sCall' = [op |-> "SaveFile", id |-> req[r].ID, r |-> r, was |-> FileAt(req[r].ID)]
    /\ NoQuotaCall
    /\ UNCHANGED <<now, disk, req>>

\* SaveFile: m.mu.Lock(); m.files[id] = file; m.mu.Unlock().  r, was
\* (history): the request that saved, and the record the id had before.
SaveFile(r) ==
    /\ rpc[r] = "stamped"
    /\ files' = [k \in DOMAIN files \cup {req[r].ID} |->
                    IF k = req[r].ID THEN FileOf(req[r]) ELSE files[k]]
    /\ regAt' = [regAt EXCEPT ![req[r].ID] = hist[r].stampedAt]
    /\ hist' = [hist EXCEPT ![r].registered = TRUE]
    /\ Goto(r, "saved")
    /\ sCall' = [op |-> "SaveFile", id |-> req[r].ID, r |-> r, was |-> FileAt(req[r].ID)]
    /\ NoQuotaCall
    /\ UNCHANGED <<now, disk, req>>

\* Download has returned and quota is disabled: the 200 response.
RespondOK(r) ==
    /\ rpc[r] = "saved"
    /\ ~quotaEnabled
    /\ aCall' = Response(r, req[r].ip, 200, "", "none")
    /\ Return(r)
    /\ sCall' = None
    /\ NoQuotaCall
    /\ UNCHANGED <<now, files, disk, regAt>>

\* Quota enabled: fileSizeBytes, err := GetFileSize(downloadResp.ID); the 200
\* response without AddUsage unless err == nil && fileSizeBytes > 0.
GetFileSize(r) ==
    /\ rpc[r] = "saved"
    /\ quotaEnabled
    /\ sCall' = [op |-> "GetFile", id |-> req[r].ID, ret |-> FileAt(req[r].ID)]
    /\ NoQuotaCall
    /\ UNCHANGED <<now, files, disk, regAt>>
    /\ IF FileAt(req[r].ID) # << >> /\ FileAt(req[r].ID)[1].Size > 0
       THEN /\ req' = [req EXCEPT ![r].Size = FileAt(req[r].ID)[1].Size]
            /\ Goto(r, "sized")
            /\ UNCHANGED hist
       ELSE /\ aCall' = Response(r, req[r].ip, 200, "", "none")
            /\ Return(r)

\* fileSizeMB := fileSizeBytes / (1024 * 1024);
\* if fileSizeBytes%1024*1024 > 0 { fileSizeMB++ }
FileSizeMB(fileSizeBytes) ==
    (fileSizeBytes \div MiB) + (IF (fileSizeBytes % 1024) * 1024 > 0 THEN 1 ELSE 0)

\* A handler that charges the quota before it downloads.
CommitReadyEarly(r) ==
    rpc[r] = "admitted"

\* StartDownload has reached its call of AddUsage.
CommitReady(r) ==
    rpc[r] = "sized"

\* h.quotaService.AddUsage(clientIP, fileSizeMB)
CommitUsage(r) ==
    /\ CommitReady(r)
    /\ AddUsage(req[r].ip, FileSizeMB(req[r].Size))
    /\ hist' = [hist EXCEPT ![r].committed = TRUE]
    /\ Goto(r, "committed")
    /\ sCall' = None
    /\ UNCHANGED <<files, disk, regAt, req>>

\* quotaInfo := GetQuotaInfo(clientIP) and the 200 response
RespondCommitted(r) ==
    /\ rpc[r] = "committed"
    /\ GetQuotaInfo(req[r].ip)
    /\ aCall' = Response(r, req[r].ip, 200, "", "none")
    /\ Return(r)
    /\ sCall' = None
    /\ UNCHANGED <<files, disk, regAt>>

\* GetFile
GetFile(id) ==
    /\ sCall' = [op |-> "GetFile", id |-> id, ret |-> FileAt(id)]
    /\ aCall' = None
    /\ NoQuotaCall
    /\ UNCHANGED <<now, files, disk, regAt, rpc, req, hist>>

\* GetDownloadFile: the record Manager.GetFile returns, or an error.
GetDownloadFile(fileID) ==
    FileAt(fileID)

\* DownloadHandler.GetFile, GET /api/download/:id: 404 not_found when
\* GetDownloadFile gives an error or os.Stat finds no file at the record's
\* FilePath, else the file is sent.
DownloadHandlerGetFile(fileID) ==
    /\ sCall' = [op |-> "GetFile", id |-> fileID, ret |-> FileAt(fileID)]
    /\ aCall' = IF GetDownloadFile(fileID) # << >> /\ GetDownloadFile(fileID)[1].FilePath \in disk
                THEN [op |-> "GetFile", id |-> fileID, status |-> 200, error |-> "",
                      reason |-> "none"]
                ELSE [op |-> "GetFile", id |-> fileID, status |-> 404, error |-> "not_found",
                      reason |-> "NotFound"]
    /\ NoQuotaCall
    /\ UNCHANGED <<now, files, disk, regAt, rpc, req, hist>>

\* A sweep that takes a record at its expiry instant (>= for >).
ExpiredAtExpiry(f, t) ==
    t >= f.ExpiresAt

\* now.After(file.ExpiresAt)
Expired(f, t) ==
    t > f.ExpiresAt

\* A sweep that keeps tracking a record whose file it could not remove.
deletedIdsUnlessFailed(expired, failed) ==
    {id \in expired : files[id].FilePath \notin failed}

\* deletedIds = append(deletedIds, id), for every expired record whatever
\* os.Remove returned
deletedIds(expired, failed) ==
    expired

\* cleanupExpiredFiles, run by cleanupRoutine on every tick of its ticker and
\* by ManualCleanup.  os.Remove of an expired record's path succeeds, finds
\* no file, or fails (failed: the paths left in place by a failure); the
\* record leaves the map whichever it was.
cleanupExpiredFiles ==
    LET expired == {id \in DOMAIN files : Expired(files[id], now)}
        targets == {files[id].FilePath : id \in expired} \cap disk
    IN  \E failed \in SUBSET targets :
            /\ disk' = disk \ (targets \ failed)
            /\ files' = [k \in DOMAIN files \ deletedIds(expired, failed) |-> files[k]]
            /\ sCall' = [op |-> "cleanup", failed |-> failed, expired |-> expired]
            /\ aCall' = None
            /\ NoQuotaCall
            /\ UNCHANGED <<now, regAt, rpc, req, hist>>

\* The clock advances (storage manager's specification).
TickStorage ==
    /\ now < StorMaxTime
    /\ now' = now + 1
    /\ sCall' = None
    /\ aCall' = None
    /\ NoQuotaCall
    /\ UNCHANGED <<files, disk, regAt, rpc, req, hist>>

\* resetRoutine's checkAndResetQuotas beside the requests.
ResetRoutine ==
    /\ checkAndResetQuotas
    /\ sCall' = None
    /\ aCall' = None
    /\ UNCHANGED <<files, disk, regAt, rpc, req, hist>>

\* The clock advances (admission path's specification).
TickAdmission ==
    /\ now < AdmMaxTime
    /\ now' = now + 1
    /\ qSum' = IF IsResetInstant(now) THEN [k \in IPs |-> 0] ELSE qSum
    /\ qCall' = None
    /\ sCall' = None
    /\ aCall' = None
    /\ UNCHANGED <<quotaEnabled, quotas, files, disk, regAt, rpc, req, hist>>

\* NewManager: an empty map; the download directory holds no file.
StorageStart ==
    /\ files = << >>
    /\ disk = {}
    /\ sCall = None
    /\ regAt = [id \in FileIDs |-> -1]

\* No request is running.
AdmissionStart ==
    /\ rpc = [r \in Reqs |-> "idle"]
    /\ req = [r \in Reqs |-> NoReq]
    /\ hist = [r \in Reqs |-> NoHist]
    /\ aCall = None

(***************************************************************************)
(* The storage manager's cleanupRoutine goroutine and Manager.Stop.        *)
(* quitChan is unbuffered: a send on it goes through only while the         *)
(* goroutine is blocked in its select, and Stop sends without blocking.     *)
(***************************************************************************)

\* Start: go m.cleanupRoutine()
Start ==
    /\ loop = "none"
    /\ loop' = "started"
    /\ UNCHANGED stop

\* cleanupRoutine: time.NewTicker, the log line, and the arrival at the
\* select of the for loop
LoopSelect ==
    /\ loop = "started"
    /\ loop' = "select"
    /\ UNCHANGED stop

\* case <-ticker.C:
LoopTicker ==
    /\ loop = "select"
    /\ loop' = "sweep"
    /\ UNCHANGED stop

\* m.cleanupExpiredFiles() returns and the loop comes back to its select
LoopSweep ==
    /\ loop = "sweep"
    /\ cleanupExpiredFiles
    /\ loop' = "select"
    /\ UNCHANGED stop

\* Stop: select { case m.quitChan <- true: ... default: ... }.  The send is
\* taken when the goroutine waits in its select, which then returns
\* (case <-m.quitChan); otherwise the default branch logs a warning.
Stop ==
    /\ stop = "no"
    /\ loop # "none"
    /\ IF loop = "select"
       THEN loop' = "stopped" /\ stop' = "sent"
       ELSE loop' = loop /\ stop' = "dropped"

\* NewManager: no goroutine yet.
LoopStart ==
    /\ loop = "none"
    /\ stop = "no"

(***************************************************************************)
(* CheckQuota step by step, for concurrent callers.  Its accesses to the   *)
(* shared state are: the lookup under RLock, the creation under Lock, the   *)
(* read of entry.ResetTime with no lock held, the reset under Lock, and the *)
(* read of entry.UsedMB with no lock held.  entry is a pointer: when the    *)
(* map slot of the key is given a new entry, a goroutine that looked the    *)
(* old one up keeps working on the old one, held here as a copy of its own  *)
(* (with two goroutines no one else can reach it).  A read that races with  *)
(* a write sees the value before or after the write.  AddUsage and          *)
(* checkAndResetQuotas hold the write lock for their whole body and are one *)
(* step each.  All calls are for one key.                                   *)
(***************************************************************************)
Checkers == {"c1", "c2"}

Key == "ip1"

\* No call running.  ent: << >> when entry is the map's entry of the key, or
\* the one-element sequence of the entry the goroutine alone still holds.
\* sum0 (history): the MB added in the window when the call began.
NoCheck ==
    [req |-> 0, ent |-> << >>, sum0 |-> 0]

\* *entry
EntryOf(p) ==
    IF cl[p].ent = << >> THEN quotas[Key] ELSE cl[p].ent[1]

\* The goroutine holds a pointer to the map's entry.
HoldsMapEntry(p) ==
    cpc[p] \in {"check", "reset", "read"} /\ cl[p].ent = << >>

\* CheckQuota(Key, requestedSizeMB): qs.mu.RLock(); entry, exists := qs.quotas[ip]
CheckQuotaLookup(p, requestedSizeMB) ==
    /\ quotaEnabled
    /\ cpc[p] = "idle"
    /\ cpc' = [cpc EXCEPT ![p] = IF Key \in DOMAIN quotas THEN "check" ELSE "create"]
    /\ cl' = [cl EXCEPT ![p] = [req |-> requestedSizeMB, ent |-> << >>, sum0 |-> qSum[Key]]]
    /\ qCall' = None
    /\ UNCHANGED <<now, quotaEnabled, quotas, qSum>>

\* qs.quotas[ip] = &QuotaEntry{UsedMB: 0, ResetTime: resetTime, ...}
CreatedEntry(t) ==
    NewQuotaEntry(0, t)

\* if !exists { qs.mu.Lock(); ...; entry = qs.quotas[ip]; qs.mu.Unlock() }
CheckQuotaCreate(p) ==
    /\ cpc[p] = "create"
    /\ quotas' = [k \in DOMAIN quotas \cup {Key} |->
                     IF k = Key THEN CreatedEntry(now) ELSE quotas[k]]
    /\ cl' = [q \in Checkers |->
                 IF q # p /\ HoldsMapEntry(q) /\ Key \in DOMAIN quotas
                 THEN [cl[q] EXCEPT !.ent = <<quotas[Key]>>]
                 ELSE cl[q]]
    /\ cpc' = [cpc EXCEPT ![p] = "check"]
    /\ qCall' = None
    /\ UNCHANGED <<now, quotaEnabled, qSum>>

\* now := time.Now(); if now.After(entry.ResetTime)
CheckQuotaElapsed(p) ==
    /\ cpc[p] = "check"
    /\ cpc' = [cpc EXCEPT ![p] = IF QuotaWindowPassed(EntryOf(p), now) THEN "reset" ELSE "read"]
    /\ qCall' = None
    /\ UNCHANGED <<now, quotaEnabled, quotas, qSum, cl>>

\* entry.UsedMB = 0; entry.ResetTime = qs.calculateResetTime()
ResetEntry(e, t) ==
    NewQuotaEntry(0, t)

\* qs.mu.Lock(); the reset of *entry; qs.mu.Unlock()
CheckQuotaReset(p) ==
    /\ cpc[p] = "reset"
    /\ IF cl[p].ent = << >>
       THEN /\ quotas' = [quotas EXCEPT ![Key] = ResetEntry(quotas[Key], now)]
            /\ UNCHANGED cl
       ELSE /\ cl' = [cl EXCEPT ![p].ent = <<ResetEntry(cl[p].ent[1], now)>>]
            /\ UNCHANGED quotas
    /\ cpc' = [cpc EXCEPT ![p] = "read"]
    /\ qCall' = None
    /\ UNCHANGED <<now, quotaEnabled, qSum>>

\* remaining := qs.cfg.DailyLimitMB - entry.UsedMB and the returns
CheckQuotaReturn(p) ==
    /\ cpc[p] = "read"
    /\ qCall' = [op |-> "CheckQuota", ip |-> Key, req |-> cl[p].req,
                 ret |-> CheckQuotaResult(EntryOf(p).UsedMB, cl[p].req),
                 sum0 |-> cl[p].sum0]
    /\ cpc' = [cpc EXCEPT ![p] = "idle"]
    /\ cl' = [cl EXCEPT ![p] = NoCheck]
    /\ UNCHANGED <<now, quotaEnabled, quotas, qSum>>

\* The clock advances (step-by-step CheckQuota specification).
TickCheck ==
    /\ now < CheckMaxTime
    /\ now' = now + 1
    /\ qSum' = IF IsResetInstant(now) THEN [k \in IPs |-> 0] ELSE qSum
    /\ qCall' = None
    /\ UNCHANGED <<quotaEnabled, quotas, cpc, cl>>

\* No CheckQuota call is running.
CheckStart ==
    /\ cpc = [p \in Checkers |-> "idle"]
    /\ cl = [p \in Checkers |-> NoCheck]

(***************************************************************************)
(* cleanupExpiredFiles step by step, for the cleanup goroutine and a        *)
(* ManualCleanup running side by side: m.mu.Lock(), the reading of the      *)
(* clock, the loop that calls os.Remove for every expired record and        *)
(* collects deletedIds, the deletions from the map, and the deferred        *)
(* Unlock.                                                                  *)
(***************************************************************************)
Sweepers == {"timer", "manual"}

\* No cleanupExpiredFiles running: at is its now, ids its deletedIds.
NoSweep ==
    [at |-> 0, ids |-> {}]

\* A manager whose Lock never waits.
SweepMuFreeNoLock == TRUE

\* m.mu.Lock() can be taken
SweepMuFree == smu = "free"

\* cleanupExpiredFiles is called (by the ticker case or by ManualCleanup).
SweepCall(p) ==
    /\ spc[p] = "idle"
    /\ spc' = [spc EXCEPT ![p] = "lock"]
    /\ sCall' = None
    /\ aCall' = None
    /\ NoQuotaCall
    /\ UNCHANGED <<now, files, disk, regAt, rpc, req, hist, smu, sl>>

\* m.mu.Lock(); now := time.Now()
SweepLock(p) ==
    /\ spc[p] = "lock"
    /\ SweepMuFree
    /\ smu' = p
    /\ sl' = [sl EXCEPT ![p].at = now]
    /\ spc' = [spc EXCEPT ![p] = "scan"]
    /\ sCall' = None
    /\ aCall' = None
    /\ NoQuotaCall
    /\ UNCHANGED <<now, files, disk, regAt, rpc, req, hist>>

\* for id, file := range m.files { if now.After(file.ExpiresAt) { os.Remove; ...;
\* deletedIds = append(deletedIds, id) } }
SweepRemove(p) ==
    /\ spc[p] = "scan"
    /\ LET expired == {id \in DOMAIN files : Expired(files[id], sl[p].at)}
           targets == {files[id].FilePath : id \in expired} \cap disk
       IN  \E failed \in SUBSET targets :
               /\ disk' = disk \ (targets \ failed)
               /\ sl' = [sl EXCEPT ![p].ids = deletedIds(expired, failed)]
    /\ spc' = [spc EXCEPT ![p] = "delete"]
    /\ sCall' = None
    /\ aCall' = None
    /\ NoQuotaCall
    /\ UNCHANGED <<now, files, regAt, rpc, req, hist, smu>>

\* for _, id := range deletedIds { delete(m.files, id) }, then the deferred
\* m.mu.Unlock()
SweepDelete(p) ==
    /\ spc[p] = "delete"
    /\ files' = [k \in DOMAIN files \ sl[p].ids |-> files[k]]
    /\ smu' = IF smu = p THEN "free" ELSE smu
    /\ sl' = [sl EXCEPT ![p] = NoSweep]
    /\ spc' = [spc EXCEPT ![p] = "idle"]
    /\ sCall' = None
    /\ aCall' = None
    /\ NoQuotaCall
    /\ UNCHANGED <<now, disk, regAt, rpc, req, hist>>

\* No cleanupExpiredFiles is running and the lock is free.
SweepStart ==
    /\ smu = "free"
    /\ spc = [p \in Sweepers |-> "idle"]
    /\ sl = [p \in Sweepers |-> NoSweep]

(***************************************************************************)
(* The background goroutines of the quota service (resetRoutine) and of    *)
(* the rate limiter (cleanupRoutine), and the services' Stop.  The          *)
(* constructor starts the goroutine when the service is enabled.  quitChan  *)
(* is unbuffered and Stop sends on it with a plain send, which goes through *)
(* only while the goroutine waits in its select and blocks until then.      *)
(***************************************************************************)
Services == {"quota", "rate"}

\* cfg.Enabled of the service
ServiceEnabled(s) ==
    IF s = "quota" THEN quotaEnabled ELSE rateEnabled

\* time.NewTicker and the arrival at the select of the for loop
RoutineSelect(s) ==
    /\ routine[s] = "started"
    /\ routine' = [routine EXCEPT ![s] = "select"]
    /\ UNCHANGED <<now, rateVars, quotaVars, stopping, stops>>

\* case <-ticker.C:
RoutineTicker(s) ==
    /\ routine[s] = "select"
    /\ routine' = [routine EXCEPT ![s] = "sweep"]
    /\ UNCHANGED <<now, rateVars, quotaVars, stopping, stops>>

\* qs.checkAndResetQuotas() / rls.cleanup() returns and the loop comes back
\* to its select
RoutineSweep(s) ==
    /\ routine[s] = "sweep"
    /\ IF s = "quota"
       THEN checkAndResetQuotas /\ UNCHANGED rateVars
       ELSE cleanup /\ UNCHANGED quotaVars
    /\ routine' = [routine EXCEPT ![s] = "select"]
    /\ UNCHANGED <<stopping, stops>>

\* Stop is called: if !cfg.Enabled it returns at once, else it comes to its
\* send on quitChan.
ServiceStop(s) ==
    /\ stopping[s] = "idle"
    /\ stops[s] < MaxStops
    /\ IF ServiceEnabled(s)
       THEN /\ stopping' = [stopping EXCEPT ![s] = "send"]
            /\ UNCHANGED stops
       ELSE /\ stops' = [stops EXCEPT ![s] = stops[s] + 1]
            /\ UNCHANGED stopping
    /\ UNCHANGED <<now, rateVars, quotaVars, routine>>

\* quitChan <- true meets case <-quitChan: the goroutine returns and so does
\* Stop.
ServiceStopSend(s) ==
    /\ stopping[s] = "send"
    /\ routine[s] = "select"
    /\ routine' = [routine EXCEPT ![s] = "stopped"]
    /\ stopping' = [stopping EXCEPT ![s] = "idle"]
    /\ stops' = [stops EXCEPT ![s] = stops[s] + 1]
    /\ UNCHANGED <<now, rateVars, quotaVars>>

\* The clock advances (specification of the services' Stop).
TickStop ==
    /\ now < StopMaxTime
    /\ now' = now + 1
    /\ qSum' = IF IsResetInstant(now) THEN [k \in IPs |-> 0] ELSE qSum
    /\ qCall' = None
    /\ rlCall' = None
    /\ UNCHANGED <<quotaEnabled, quotas, rateEnabled, limits, rlWin, rlKept, stopVars>>

\* NewQuotaService / NewRateLimitService: go service.resetRoutine() /
\* go service.cleanupRoutine() if cfg.Enabled; no call of Stop yet.
StopStart ==
    /\ routine = [s \in Services |-> IF ServiceEnabled(s) THEN "started" ELSE "none"]
    /\ stopping = [s \in Services |-> "idle"]
    /\ stops = [s \in Services |-> 0]

vars == <<now, rateVars, quotaVars, commitVars, storVars, admVars, loopVars, checkVars, sweepVars, stopVars>>

(***************************************************************************)
(* The rate limiter alone.                                                 *)
(***************************************************************************)
InitRate ==
    /\ now = 0
    /\ rateEnabled \in BOOLEAN
    /\ RateStart
    /\ quotaEnabled = TRUE
    /\ QuotaStart
    /\ CommitStart
    /\ StorageStart
    /\ AdmissionStart
    /\ LoopStart
    /\ CheckStart
    /\ SweepStart
    /\ StopStart

NextRate ==
    \/ \E ip \in IPs : IsAllowed(ip) /\ UNCHANGED <<quotaVars, commitVars, storVars, admVars, loopVars, checkVars, sweepVars, stopVars>>
    \/ \E ip \in IPs : AllowBurst(ip) /\ UNCHANGED <<quotaVars, commitVars, storVars, admVars, loopVars, checkVars, sweepVars, stopVars>>
    \/ \E ip \in IPs : GetRemaining(ip) /\ UNCHANGED <<quotaVars, commitVars, storVars, admVars, loopVars, checkVars, sweepVars, stopVars>>
    \/ \E ip \in IPs : Reset(ip) /\ UNCHANGED <<quotaVars, commitVars, storVars, admVars, loopVars, checkVars, sweepVars, stopVars>>
    \/ cleanup /\ UNCHANGED <<quotaVars, commitVars, storVars, admVars, loopVars, checkVars, sweepVars, stopVars>>
    \/ TickRate /\ UNCHANGED <<quotaVars, commitVars, storVars, admVars, loopVars, checkVars, sweepVars, stopVars>>

SpecRate == InitRate /\ [][NextRate]_vars

(***************************************************************************)
(* The quota tracker alone, its calls made one at a time.                  *)
(***************************************************************************)
InitQuota ==
    /\ now = 0
    /\ quotaEnabled \in BOOLEAN
    /\ QuotaStart
    /\ rateEnabled = TRUE
    /\ RateStart
    /\ CommitStart
    /\ StorageStart
    /\ AdmissionStart
    /\ LoopStart
    /\ CheckStart
    /\ SweepStart
    /\ StopStart

NextQuota ==
    \/ \E ip \in IPs, requestedSizeMB \in 0..MaxSizeMB : CheckQuota(ip, requestedSizeMB) /\ UNCHANGED <<rateVars, commitVars, storVars, admVars, loopVars, checkVars, sweepVars, stopVars>>
    \/ \E ip \in IPs, size \in 0..MaxSizeMB : AddUsage(ip, size) /\ UNCHANGED <<rateVars, commitVars, storVars, admVars, loopVars, checkVars, sweepVars, stopVars>>
    \/ \E ip \in IPs : GetQuotaInfo(ip) /\ UNCHANGED <<rateVars, commitVars, storVars, admVars, loopVars, checkVars, sweepVars, stopVars>>
    \/ checkAndResetQuotas /\ UNCHANGED <<rateVars, commitVars, storVars, admVars, loopVars, checkVars, sweepVars, stopVars>>
    \/ TickQuota /\ UNCHANGED <<rateVars, commitVars, storVars, admVars, loopVars, checkVars, sweepVars, stopVars>>

SpecQuota == InitQuota /\ [][NextQuota]_vars

(***************************************************************************)
(* Concurrent AddUsage(ip, 1) callers and the reset routine.               *)
(***************************************************************************)
InitCommit ==
    /\ now = 0
    /\ quotaEnabled = TRUE
    /\ QuotaStart
    /\ CommitStart
    /\ rateEnabled = TRUE
    /\ RateStart
    /\ StorageStart
    /\ AdmissionStart
    /\ LoopStart
    /\ CheckStart
    /\ SweepStart
    /\ StopStart

NextCommit ==
    \/ \E p \in Callers, ip \in IPs : AddUsageCall(p, ip) /\ UNCHANGED <<rateVars, storVars, admVars, loopVars, checkVars, sweepVars, stopVars>>
    \/ \E p \in Callers : AddUsageLock(p) /\ UNCHANGED <<rateVars, storVars, admVars, loopVars, checkVars, sweepVars, stopVars>>
    \/ \E p \in Callers : AddUsageRead(p) /\ UNCHANGED <<rateVars, storVars, admVars, loopVars, checkVars, sweepVars, stopVars>>
    \/ \E p \in Callers : AddUsageWrite(p) /\ UNCHANGED <<rateVars, storVars, admVars, loopVars, checkVars, sweepVars, stopVars>>
    \/ SweepCommit /\ UNCHANGED <<rateVars, storVars, admVars, loopVars, checkVars, sweepVars, stopVars>>
    \/ TickCommit /\ UNCHANGED <<rateVars, storVars, admVars, loopVars, checkVars, sweepVars, stopVars>>

SpecCommit == InitCommit /\ [][NextCommit]_vars

(***************************************************************************)
(* Concurrent CheckQuota calls beside AddUsage and the reset routine.      *)
(***************************************************************************)
InitCheck ==
    /\ now = 0
    /\ quotaEnabled = TRUE
    /\ QuotaStart
    /\ CheckStart
    /\ CommitStart
    /\ rateEnabled = TRUE
    /\ RateStart
    /\ StorageStart
    /\ AdmissionStart
    /\ LoopStart
    /\ SweepStart
    /\ StopStart

NextCheck ==
    \/ \E p \in Checkers, requestedSizeMB \in 0..1 :
           CheckQuotaLookup(p, requestedSizeMB) /\ UNCHANGED <<rateVars, commitVars, storVars, admVars, loopVars, sweepVars, stopVars>>
    \/ \E p \in Checkers : CheckQuotaCreate(p) /\ UNCHANGED <<rateVars, commitVars, storVars, admVars, loopVars, sweepVars, stopVars>>
    \/ \E p \in Checkers : CheckQuotaElapsed(p) /\ UNCHANGED <<rateVars, commitVars, storVars, admVars, loopVars, sweepVars, stopVars>>
    \/ \E p \in Checkers : CheckQuotaReset(p) /\ UNCHANGED <<rateVars, commitVars, storVars, admVars, loopVars, sweepVars, stopVars>>
    \/ \E p \in Checkers : CheckQuotaReturn(p) /\ UNCHANGED <<rateVars, commitVars, storVars, admVars, loopVars, sweepVars, stopVars>>
    \/ qSum[Key] < DailyLimitMB /\ AddUsage(Key, 1)
           /\ UNCHANGED <<rateVars, commitVars, storVars, admVars, loopVars, checkVars, sweepVars, stopVars>>
    \/ checkAndResetQuotas /\ UNCHANGED <<rateVars, commitVars, storVars, admVars, loopVars, checkVars, sweepVars, stopVars>>
    \/ GetQuotaInfo(Key) /\ UNCHANGED <<rateVars, commitVars, storVars, admVars, loopVars, checkVars, sweepVars, stopVars>>
    \/ TickCheck /\ UNCHANGED <<rateVars, commitVars, storVars, admVars, loopVars, sweepVars, stopVars>>

SpecCheck == InitCheck /\ [][NextCheck]_vars

(***************************************************************************)
(* The storage manager fed by one downloading request, quota disabled.     *)
(***************************************************************************)
StorReqs == {"r1"}

InitStorage ==
    /\ now = 0
    /\ StorageStart
    /\ AdmissionStart
    /\ quotaEnabled = FALSE
    /\ QuotaStart
    /\ rateEnabled = TRUE
    /\ RateStart
    /\ CommitStart
    /\ LoopStart
    /\ CheckStart
    /\ SweepStart
    /\ StopStart

NextStorage ==
    \/ \E r \in StorReqs, ip \in {"ip1"}, fileSize \in {0, MaxVideoSizeMB * MiB + 1} :
           StartDownload(r, ip, fileSize) /\ UNCHANGED <<rateVars, commitVars, loopVars, checkVars, sweepVars, stopVars>>
    \/ \E r \in StorReqs, ok \in BOOLEAN, path \in Paths, size \in {1, MaxVideoSizeMB * MiB + 1} :
           DownloadFetch(r, ok, path, size) /\ UNCHANGED <<rateVars, commitVars, loopVars, checkVars, sweepVars, stopVars>>
    \/ \E r \in StorReqs, ok \in BOOLEAN : DownloadWrite(r, ok) /\ UNCHANGED <<rateVars, commitVars, loopVars, checkVars, sweepVars, stopVars>>
    \/ \E r \in StorReqs, id \in FileIDs : SaveFileCreatedAt(r, id) /\ UNCHANGED <<rateVars, commitVars, loopVars, checkVars, sweepVars, stopVars>>
    \/ \E r \in StorReqs : SaveFileExpiresAt(r) /\ UNCHANGED <<rateVars, commitVars, loopVars, checkVars, sweepVars, stopVars>>
    \/ \E r \in StorReqs : SaveFile(r) /\ UNCHANGED <<rateVars, commitVars, loopVars, checkVars, sweepVars, stopVars>>
    \/ \E r \in StorReqs : RespondOK(r) /\ UNCHANGED <<rateVars, commitVars, loopVars, checkVars, sweepVars, stopVars>>
    \/ \E id \in FileIDs : GetFile(id) /\ UNCHANGED <<rateVars, commitVars, loopVars, checkVars, sweepVars, stopVars>>
    \/ \E id \in FileIDs : DownloadHandlerGetFile(id) /\ UNCHANGED <<rateVars, commitVars, loopVars, checkVars, sweepVars, stopVars>>
    \/ cleanupExpiredFiles /\ UNCHANGED <<rateVars, commitVars, loopVars, checkVars, sweepVars, stopVars>>
    \/ TickStorage /\ UNCHANGED <<rateVars, commitVars, loopVars, checkVars, sweepVars, stopVars>>

SpecStorage == InitStorage /\ [][NextStorage]_vars

(***************************************************************************)
(* The storage manager with its cleanup goroutine: main starts it, one     *)
(* request at a time registers files, and Stop is called once.  The         *)
(* goroutine is scheduled and its ticker fires again and again: weak        *)
(* fairness on each of its steps.                                           *)
(***************************************************************************)
InitLoop ==
    InitStorage

StorageIdle ==
    /\ sCall' = sCall
    /\ UNCHANGED <<now, quotaVars, files, disk, regAt, admVars>>

NextLoop ==
    \/ Start /\ StorageIdle /\ UNCHANGED <<rateVars, commitVars, checkVars, sweepVars, stopVars>>
    \/ LoopSelect /\ StorageIdle /\ UNCHANGED <<rateVars, commitVars, checkVars, sweepVars, stopVars>>
    \/ LoopTicker /\ StorageIdle /\ UNCHANGED <<rateVars, commitVars, checkVars, sweepVars, stopVars>>
    \/ LoopSweep /\ UNCHANGED <<rateVars, commitVars, checkVars, sweepVars, stopVars>>
    \/ Stop /\ StorageIdle /\ UNCHANGED <<rateVars, commitVars, checkVars, sweepVars, stopVars>>
    \/ \E r \in StorReqs : StartDownload(r, "ip1", 0) /\ UNCHANGED <<rateVars, commitVars, loopVars, checkVars, sweepVars, stopVars>>
    \/ \E r \in StorReqs, path \in Paths : DownloadFetch(r, TRUE, path, 1) /\ UNCHANGED <<rateVars, commitVars, loopVars, checkVars, sweepVars, stopVars>>
    \/ \E r \in StorReqs : DownloadWrite(r, TRUE) /\ UNCHANGED <<rateVars, commitVars, loopVars, checkVars, sweepVars, stopVars>>
    \/ \E r \in StorReqs : SaveFileCreatedAt(r, "f1") /\ UNCHANGED <<rateVars, commitVars, loopVars, checkVars, sweepVars, stopVars>>
    \/ \E r \in StorReqs : SaveFileExpiresAt(r) /\ UNCHANGED <<rateVars, commitVars, loopVars, checkVars, sweepVars, stopVars>>
    \/ \E r \in StorReqs : SaveFile(r) /\ UNCHANGED <<rateVars, commitVars, loopVars, checkVars, sweepVars, stopVars>>
    \/ \E r \in StorReqs : RespondOK(r) /\ UNCHANGED <<rateVars, commitVars, loopVars, checkVars, sweepVars, stopVars>>
    \/ TickStorage /\ UNCHANGED <<rateVars, commitVars, loopVars, checkVars, sweepVars, stopVars>>

LoopFairness ==
    /\ WF_vars(LoopSelect /\ StorageIdle /\ UNCHANGED <<rateVars, commitVars, checkVars, sweepVars, stopVars>>)
    /\ WF_vars(LoopTicker /\ StorageIdle /\ UNCHANGED <<rateVars, commitVars, checkVars, sweepVars, stopVars>>)
    /\ WF_vars(LoopSweep /\ UNCHANGED <<rateVars, commitVars, checkVars, sweepVars, stopVars>>)

SpecLoop == InitLoop /\ [][NextLoop]_vars /\ LoopFairness

(***************************************************************************)
(* The admission path: concurrent requests, quota enabled, the reset       *)
(* routine and the storage cleanup beside them.                            *)
(***************************************************************************)
InitAdmission ==
    /\ now = 0
    /\ StorageStart
    /\ AdmissionStart
    /\ quotaEnabled = TRUE
    /\ QuotaStart
    /\ rateEnabled = TRUE
    /\ RateStart
    /\ CommitStart
    /\ LoopStart
    /\ CheckStart
    /\ SweepStart
    /\ StopStart

\* The requests running side by side.
AdmReqs == {"r1", "r2"}

\* The requests of one goroutine read the clock at different nanoseconds
\* from the other's: each goroutine has its id.
IdOf == [r \in Reqs |-> IF r = "r1" THEN "f1" ELSE "f2"]

NextAdmission ==
    \/ \E r \in AdmReqs, ip \in {"ip1"}, fileSize \in {0, MaxVideoSizeMB * MiB + 1} :
           StartDownload(r, ip, fileSize) /\ UNCHANGED <<rateVars, commitVars, loopVars, checkVars, sweepVars, stopVars>>
    \/ \E r \in AdmReqs : QuotaExhausted(r) /\ UNCHANGED <<rateVars, commitVars, loopVars, checkVars, sweepVars, stopVars>>
    \/ \E r \in AdmReqs, ok \in BOOLEAN, size \in {1, MaxVideoSizeMB * MiB + 1} :
           DownloadFetch(r, ok, "a", size) /\ UNCHANGED <<rateVars, commitVars, loopVars, checkVars, sweepVars, stopVars>>
    \/ \E r \in AdmReqs, ok \in BOOLEAN : DownloadWrite(r, ok) /\ UNCHANGED <<rateVars, commitVars, loopVars, checkVars, sweepVars, stopVars>>
    \/ \E r \in AdmReqs : SaveFileCreatedAt(r, IdOf[r]) /\ UNCHANGED <<rateVars, commitVars, loopVars, checkVars, sweepVars, stopVars>>
    \/ \E r \in AdmReqs : SaveFileExpiresAt(r) /\ UNCHANGED <<rateVars, commitVars, loopVars, checkVars, sweepVars, stopVars>>
    \/ \E r \in AdmReqs : SaveFile(r) /\ UNCHANGED <<rateVars, commitVars, loopVars, checkVars, sweepVars, stopVars>>
    \/ \E r \in AdmReqs : GetFileSize(r) /\ UNCHANGED <<rateVars, commitVars, loopVars, checkVars, sweepVars, stopVars>>
    \/ \E r \in AdmReqs : CommitUsage(r) /\ UNCHANGED <<rateVars, commitVars, loopVars, checkVars, sweepVars, stopVars>>
    \/ \E r \in AdmReqs : RespondCommitted(r) /\ UNCHANGED <<rateVars, commitVars, loopVars, checkVars, sweepVars, stopVars>>
    \/ cleanupExpiredFiles /\ UNCHANGED <<rateVars, commitVars, loopVars, checkVars, sweepVars, stopVars>>
    \/ ResetRoutine /\ UNCHANGED <<rateVars, commitVars, loopVars, checkVars, sweepVars, stopVars>>
    \/ TickAdmission /\ UNCHANGED <<rateVars, commitVars, loopVars, checkVars, sweepVars, stopVars>>

SpecAdmission == InitAdmission /\ [][NextAdmission]_vars

(***************************************************************************)
(* One request at a time through the rate limiter's middleware and         *)
(* StartDownload, quota enabled or not.                                    *)
(***************************************************************************)
InitGate ==
    /\ now = 0
    /\ StorageStart
    /\ AdmissionStart
    /\ quotaEnabled \in BOOLEAN
    /\ QuotaStart
    /\ rateEnabled = TRUE
    /\ RateStart
    /\ CommitStart
    /\ LoopStart
    /\ CheckStart
    /\ SweepStart
    /\ StopStart

NextGate ==
    \/ \E r \in StorReqs, fileSize \in {0, MaxVideoSizeMB * MiB + 1} :
           RateLimitMiddleware(r, "ip1", fileSize) /\ UNCHANGED <<commitVars, loopVars, checkVars, sweepVars, stopVars>>
    \/ \E r \in StorReqs : QuotaExhausted(r) /\ NoRateCall /\ UNCHANGED <<commitVars, loopVars, checkVars, sweepVars, stopVars>>
    \/ \E r \in StorReqs, ok \in BOOLEAN, size \in FileSizes :
           DownloadFetch(r, ok, "a", size) /\ NoRateCall /\ UNCHANGED <<commitVars, loopVars, checkVars, sweepVars, stopVars>>
    \/ \E r \in StorReqs, ok \in BOOLEAN : DownloadWrite(r, ok) /\ NoRateCall /\ UNCHANGED <<commitVars, loopVars, checkVars, sweepVars, stopVars>>
    \/ \E r \in StorReqs : SaveFileCreatedAt(r, "f1") /\ NoRateCall /\ UNCHANGED <<commitVars, loopVars, checkVars, sweepVars, stopVars>>
    \/ \E r \in StorReqs : SaveFileExpiresAt(r) /\ NoRateCall /\ UNCHANGED <<commitVars, loopVars, checkVars, sweepVars, stopVars>>
    \/ \E r \in StorReqs : SaveFile(r) /\ NoRateCall /\ UNCHANGED <<commitVars, loopVars, checkVars, sweepVars, stopVars>>
    \/ \E r \in StorReqs : RespondOK(r) /\ NoRateCall /\ UNCHANGED <<commitVars, loopVars, checkVars, sweepVars, stopVars>>
    \/ \E r \in StorReqs : GetFileSize(r) /\ NoRateCall /\ UNCHANGED <<commitVars, loopVars, checkVars, sweepVars, stopVars>>
    \/ \E r \in StorReqs : CommitUsage(r) /\ NoRateCall /\ UNCHANGED <<commitVars, loopVars, checkVars, sweepVars, stopVars>>
    \/ \E r \in StorReqs : RespondCommitted(r) /\ NoRateCall /\ UNCHANGED <<commitVars, loopVars, checkVars, sweepVars, stopVars>>
    \/ TickGate /\ UNCHANGED <<commitVars, loopVars, checkVars, sweepVars, stopVars>>

SpecGate == InitGate /\ [][NextGate]_vars

(***************************************************************************)
(* The storage manager with two cleanupExpiredFiles side by side, fed by   *)
(* one downloading request (quota disabled).  SaveFile and GetFile take    *)
(* the manager's lock.                                                     *)
(***************************************************************************)
InitSweep ==
    InitStorage

NextSweep ==
    \/ \E r \in StorReqs : StartDownload(r, "ip1", 0) /\ UNCHANGED <<rateVars, commitVars, loopVars, checkVars, sweepVars, stopVars>>
    \/ \E r \in StorReqs, path \in Paths : DownloadFetch(r, TRUE, path, 1) /\ UNCHANGED <<rateVars, commitVars, loopVars, checkVars, sweepVars, stopVars>>
    \/ \E r \in StorReqs : DownloadWrite(r, TRUE) /\ UNCHANGED <<rateVars, commitVars, loopVars, checkVars, sweepVars, stopVars>>
    \/ \E r \in StorReqs, id \in FileIDs : SaveFileCreatedAt(r, id) /\ UNCHANGED <<rateVars, commitVars, loopVars, checkVars, sweepVars, stopVars>>
    \/ \E r \in StorReqs : SaveFileExpiresAt(r) /\ UNCHANGED <<rateVars, commitVars, loopVars, checkVars, sweepVars, stopVars>>
    \/ \E r \in StorReqs : SweepMuFree /\ SaveFile(r) /\ UNCHANGED <<rateVars, commitVars, loopVars, checkVars, sweepVars, stopVars>>
    \/ \E r \in StorReqs : RespondOK(r) /\ UNCHANGED <<rateVars, commitVars, loopVars, checkVars, sweepVars, stopVars>>
    \/ \E id \in FileIDs : SweepMuFree /\ GetFile(id) /\ UNCHANGED <<rateVars, commitVars, loopVars, checkVars, sweepVars, stopVars>>
    \/ \E p \in Sweepers : SweepCall(p) /\ UNCHANGED <<rateVars, commitVars, loopVars, checkVars, stopVars>>
    \/ \E p \in Sweepers : SweepLock(p) /\ UNCHANGED <<rateVars, commitVars, loopVars, checkVars, stopVars>>
    \/ \E p \in Sweepers : SweepRemove(p) /\ UNCHANGED <<rateVars, commitVars, loopVars, checkVars, stopVars>>
    \/ \E p \in Sweepers : SweepDelete(p) /\ UNCHANGED <<rateVars, commitVars, loopVars, checkVars, stopVars>>
    \/ TickStorage /\ UNCHANGED <<rateVars, commitVars, loopVars, checkVars, sweepVars, stopVars>>

SpecSweep == InitSweep /\ [][NextSweep]_vars

(***************************************************************************)
(* A burst of requests of one client inside one quota window: three         *)
(* StartDownload running side by side, quota enabled, every fetch giving a  *)
(* file of the maximum size.  The clock stays before the first reset        *)
(* instant has passed.                                                      *)
(***************************************************************************)
InitBurst ==
    InitAdmission

\* The clock advances up to the first reset instant.
TickBurst ==
    /\ now < ResetOffset
    /\ TickAdmission

NextBurst ==
    \/ \E r \in Reqs : StartDownload(r, "ip1", 0) /\ UNCHANGED <<rateVars, commitVars, loopVars, checkVars, sweepVars, stopVars>>
    \/ \E r \in Reqs : QuotaExhausted(r) /\ UNCHANGED <<rateVars, commitVars, loopVars, checkVars, sweepVars, stopVars>>
    \/ \E r \in Reqs : DownloadFetch(r, TRUE, "a", MaxVideoSizeMB * MiB) /\ UNCHANGED <<rateVars, commitVars, loopVars, checkVars, sweepVars, stopVars>>
    \/ \E r \in Reqs : DownloadWrite(r, TRUE) /\ UNCHANGED <<rateVars, commitVars, loopVars, checkVars, sweepVars, stopVars>>
    \/ \E r \in Reqs : SaveFileCreatedAt(r, IdOf[r]) /\ UNCHANGED <<rateVars, commitVars, loopVars, checkVars, sweepVars, stopVars>>
    \/ \E r \in Reqs : SaveFileExpiresAt(r) /\ UNCHANGED <<rateVars, commitVars, loopVars, checkVars, sweepVars, stopVars>>
    \/ \E r \in Reqs : SaveFile(r) /\ UNCHANGED <<rateVars, commitVars, loopVars, checkVars, sweepVars, stopVars>>
    \/ \E r \in Reqs : GetFileSize(r) /\ UNCHANGED <<rateVars, commitVars, loopVars, checkVars, sweepVars, stopVars>>
    \/ \E r \in Reqs : CommitUsage(r) /\ UNCHANGED <<rateVars, commitVars, loopVars, checkVars, sweepVars, stopVars>>
    \/ \E r \in Reqs : RespondCommitted(r) /\ UNCHANGED <<rateVars, commitVars, loopVars, checkVars, sweepVars, stopVars>>
    \/ TickBurst /\ UNCHANGED <<rateVars, commitVars, loopVars, checkVars, sweepVars, stopVars>>

SpecBurst == InitBurst /\ [][NextBurst]_vars

(***************************************************************************)
(* The two services with their goroutines and MaxStops calls of Stop on    *)
(* each, enabled or not, while one client is served (IsAllowed, AddUsage).  *)
(* The goroutines are scheduled: weak fairness on                           *)
(* their steps.  A select with several ready cases picks one at random, so  *)
(* a send that finds the goroutine in its select again and again is taken   *)
(* in the end: strong fairness on the send.                                 *)
(***************************************************************************)
InitStop ==
    /\ now = 0
    /\ quotaEnabled \in BOOLEAN
    /\ QuotaStart
    /\ rateEnabled \in BOOLEAN
    /\ RateStart
    /\ CommitStart
    /\ StorageStart
    /\ AdmissionStart
    /\ LoopStart
    /\ CheckStart
    /\ SweepStart
    /\ StopStart

NextStop ==
    \/ \E s \in Services : RoutineSelect(s) /\ UNCHANGED <<commitVars, storVars, admVars, loopVars, checkVars, sweepVars>>
    \/ \E s \in Services : RoutineTicker(s) /\ UNCHANGED <<commitVars, storVars, admVars, loopVars, checkVars, sweepVars>>
    \/ \E s \in Services : RoutineSweep(s) /\ UNCHANGED <<commitVars, storVars, admVars, loopVars, checkVars, sweepVars>>
    \/ \E s \in Services : ServiceStop(s) /\ UNCHANGED <<commitVars, storVars, admVars, loopVars, checkVars, sweepVars>>
    \/ \E s \in Services : ServiceStopSend(s) /\ UNCHANGED <<commitVars, storVars, admVars, loopVars, checkVars, sweepVars>>
    \/ IsAllowed("ip1") /\ UNCHANGED <<quotaVars, commitVars, storVars, admVars, loopVars, checkVars, sweepVars, stopVars>>
    \/ AddUsage("ip1", 1) /\ UNCHANGED <<rateVars, commitVars, storVars, admVars, loopVars, checkVars, sweepVars, stopVars>>
    \/ TickStop /\ UNCHANGED <<commitVars, storVars, admVars, loopVars, checkVars, sweepVars>>

StopFairness ==
    \A s \in Services :
        /\ WF_vars(RoutineSelect(s) /\ UNCHANGED <<commitVars, storVars, admVars, loopVars, checkVars, sweepVars>>)
        /\ WF_vars(RoutineSweep(s) /\ UNCHANGED <<commitVars, storVars, admVars, loopVars, checkVars, sweepVars>>)
        /\ SF_vars(ServiceStopSend(s) /\ UNCHANGED <<commitVars, storVars, admVars, loopVars, checkVars, sweepVars>>)

SpecStop == InitStop /\ [][NextStop]_vars /\ StopFairness

\* The MB charged to ip.
UsedOf(q, ip) ==
    IF ip \in DOMAIN q THEN q[ip].UsedMB ELSE 0

(***************************************************************************)
(* Claims on the rate limiter (SpecRate).                                  *)
(***************************************************************************)

\* C1: with rate limiting enabled, in a window whose calls are all IsAllowed,
\* the n-th call made before the window's end returns true for n <= L and
\* false for n = L+1; the call that opens a window (no record, or made after
\* the previous window has rolled over) returns true.
C1_AllowLimit ==
    (rateEnabled /\ rlCall.op = "IsAllowed") =>
        /\ (rlCall.ops = {"IsAllowed"} /\ rlCall.inside /\ rlCall.n <= RequestsPerMinute + 1)
               => (rlCall.ret <=> rlCall.n <= RequestsPerMinute)
        /\ rlCall.first => rlCall.ret

\* C1 witness: the (L+1)-th IsAllowed of a window has just been denied.
C1_Witness ==
    /\ rateEnabled
    /\ rlCall.op = "IsAllowed"
    /\ rlCall.ops = {"IsAllowed"}
    /\ rlCall.inside
    /\ rlCall.n = RequestsPerMinute + 1
    /\ ~rlCall.ret

\* C7: while a key is blocked and its window has not ended, every IsAllowed
\* and AllowBurst call for it returns false, and the record stays blocked
\* across every step that is not Reset of that key.
C7_BlockedLatched ==
    [][\A ip \in IPs :
          (rateEnabled /\ ip \in DOMAIN limits /\ limits[ip].Blocked
                       /\ now < limits[ip].ResetAt) =>
              /\ (IsAllowed(ip) \/ AllowBurst(ip)) => ~rlCall'.ret
              /\ (~Reset(ip) /\ now' < limits[ip].ResetAt) =>
                     (ip \in DOMAIN limits' /\ limits'[ip].Blocked)]_vars

\* C7 witness: a call made after the latch of its window was set (more calls
\* than any threshold plus one) has been denied and the key is still blocked.
C7_Witness ==
    /\ rateEnabled
    /\ rlCall.op \in {"IsAllowed", "AllowBurst"}
    /\ rlCall.inside
    /\ rlCall.n = CountCap
    /\ ~rlCall.ret
    /\ rlCall.ip \in DOMAIN limits
    /\ limits[rlCall.ip].Blocked

\* C8: in a window whose calls are all AllowBurst, the n-th call made before
\* the window's end returns true for n <= L+B and false for n = L+B+1.
C8_BurstLimit ==
    (rateEnabled /\ rlCall.op = "AllowBurst" /\ rlCall.ops = {"AllowBurst"}
                 /\ rlCall.inside /\ rlCall.n <= RequestsPerMinute + BurstSize + 1)
        => (rlCall.ret <=> rlCall.n <= RequestsPerMinute + BurstSize)

\* C8 witness: the (L+B+1)-th AllowBurst of a window has just been denied.
C8_Witness ==
    /\ rateEnabled
    /\ rlCall.op = "AllowBurst"
    /\ rlCall.ops = {"AllowBurst"}
    /\ rlCall.inside
    /\ rlCall.n = RequestsPerMinute + BurstSize + 1
    /\ ~rlCall.ret

\* C15 (amended): an IsAllowed call on an existing record made after ResetAt
\* resets the record to Requests = 1, Blocked = false, ResetAt = now + one
\* minute and returns true, even if the key was blocked; a call made at
\* exactly ResetAt still belongs to the old window: ResetAt stays, and a
\* blocked key is denied and its record left as it is.
C15_ResetAfterWindow ==
    [][\A ip \in IPs :
          (rateEnabled /\ ip \in DOMAIN limits /\ IsAllowed(ip)) =>
              /\ (now > limits[ip].ResetAt) =>
                     /\ limits'[ip] = [Requests |-> 1, ResetAt |-> now + MinuteTicks,
                                       Blocked |-> FALSE]
                     /\ rlCall'.ret
              /\ (now = limits[ip].ResetAt) =>
                     /\ limits'[ip].ResetAt = limits[ip].ResetAt
                     /\ limits[ip].Blocked => (~rlCall'.ret /\ limits'[ip] = limits[ip])]_vars

\* C15 witness: an IsAllowed call made at exactly ResetAt on a blocked key has
\* just been denied.
C15_Witness ==
    /\ rateEnabled
    /\ rlCall.op = "IsAllowed"
    /\ ~rlCall.ret
    /\ rlCall.ip \in DOMAIN limits
    /\ limits[rlCall.ip].Blocked
    /\ now = limits[rlCall.ip].ResetAt

\* C15 (as claimed): an IsAllowed call on an existing record made at any time
\* now >= ResetAt, exactly ResetAt included, resets the record and returns
\* true.
C15_ResetAtWindowEnd ==
    [][\A ip \in IPs :
          (rateEnabled /\ ip \in DOMAIN limits /\ IsAllowed(ip)
                       /\ now >= limits[ip].ResetAt) =>
              /\ limits'[ip] = [Requests |-> 1, ResetAt |-> now + MinuteTicks,
                                Blocked |-> FALSE]
              /\ rlCall'.ret]_vars

\* C19: GetRemaining(ip) returns -1 when rate limiting is off; with it on,
\* RequestsPerMinute when the key has no entry (an entry left from a window
\* that is over counts as none), and RequestsPerMinute minus the entry's
\* Requests, or 0 when that is negative, when the key has an entry whose
\* window is not over; the call leaves every entry as it was.
C19_Remaining ==
    [][\A ip \in IPs :
          (rlCall'.op = "GetRemaining" /\ rlCall'.ip = ip) =>
              /\ limits' = limits
              /\ ~rateEnabled => rlCall'.ret = -1
              /\ (rateEnabled /\ ip \notin DOMAIN limits) => rlCall'.ret = RequestsPerMinute
              /\ (rateEnabled /\ ip \in DOMAIN limits /\ now > limits[ip].ResetAt) =>
                     rlCall'.ret = RequestsPerMinute
              /\ (rateEnabled /\ ip \in DOMAIN limits /\ now <= limits[ip].ResetAt) =>
                     /\ rlCall'.ret >= 0
                     /\ limits[ip].Requests <= RequestsPerMinute =>
                            rlCall'.ret = RequestsPerMinute - limits[ip].Requests
                     /\ limits[ip].Requests > RequestsPerMinute => rlCall'.ret = 0]_vars

\* C19 witness: GetRemaining has returned 0 for a key whose entry, in its
\* window, counts more requests than RequestsPerMinute.
C19_Witness ==
    /\ rlCall.op = "GetRemaining"
    /\ rlCall.ret = 0
    /\ rlCall.ip \in DOMAIN limits
    /\ now <= limits[rlCall.ip].ResetAt
    /\ limits[rlCall.ip].Requests > RequestsPerMinute

\* C20: Reset(ip) removes the key's entry, blocked or not, and leaves the
\* entries of the other keys as they were; a key comes to have an entry only
\* by an IsAllowed or AllowBurst for it; GetRemaining for a key without an
\* entry returns RequestsPerMinute, and an IsAllowed or AllowBurst for it
\* returns true and stores Requests = 1, Blocked = false and a window of one
\* minute from now.
C20_ResetFirstSight ==
    [][\A ip \in IPs :
          /\ (rlCall'.op = "Reset" /\ rlCall'.ip = ip) =>
                 /\ ip \notin DOMAIN limits'
                 /\ DOMAIN limits' = DOMAIN limits \ {ip}
                 /\ \A k \in DOMAIN limits' : limits'[k] = limits[k]
          /\ (ip \notin DOMAIN limits /\ ip \in DOMAIN limits') =>
                 (rlCall'.op \in {"IsAllowed", "AllowBurst"} /\ rlCall'.ip = ip)
          /\ (rateEnabled /\ ip \notin DOMAIN limits) =>
                 /\ (rlCall'.op = "GetRemaining" /\ rlCall'.ip = ip) =>
                        rlCall'.ret = RequestsPerMinute
                 /\ (rlCall'.op \in {"IsAllowed", "AllowBurst"} /\ rlCall'.ip = ip) =>
                        /\ rlCall'.ret = TRUE
                        /\ limits'[ip] = [Requests |-> 1, ResetAt |-> now + MinuteTicks,
                                          Blocked |-> FALSE]]_vars

\* C20 witness: Reset has just removed the entry of a blocked key while the
\* other key, blocked too, has kept its entry.
C20_Witness ==
    /\ rlCall.op = "Reset"
    /\ rlCall.blocked
    /\ rlCall.ip \notin DOMAIN limits
    /\ \E k \in DOMAIN limits : limits[k].Blocked

\* C21: IsAllowed and AllowBurst work on the one entry of the key.  A call of
\* either on an entry that is blocked and whose window is not over returns
\* false and leaves the entry as it is, whichever of the two latched it; a
\* call of either on an unblocked entry in its window adds one to Requests;
\* and while the entry is not blocked its Requests is the number of calls of
\* both kinds made in the window.
C21_SharedRecord ==
    [][\A ip \in IPs :
          (rateEnabled /\ rlCall'.op \in {"IsAllowed", "AllowBurst"} /\ rlCall'.ip = ip) =>
              /\ (ip \in DOMAIN limits /\ now <= limits[ip].ResetAt /\ limits[ip].Blocked) =>
                     (rlCall'.ret = FALSE /\ limits'[ip] = limits[ip])
              /\ (ip \in DOMAIN limits /\ now <= limits[ip].ResetAt /\ ~limits[ip].Blocked) =>
                     limits'[ip].Requests = limits[ip].Requests + 1
              /\ ~limits'[ip].Blocked => limits'[ip].Requests = rlCall'.n]_vars

\* C21 witness: AllowBurst has just been denied on an entry whose Requests is
\* within AllowBurst's own limit: the block was latched by IsAllowed, and
\* both kinds of call were made in the window.
C21_Witness ==
    /\ rlCall.op = "AllowBurst"
    /\ rlCall.ret = FALSE
    /\ rlCall.ops = {"IsAllowed", "AllowBurst"}
    /\ limits[rlCall.ip].Blocked
    /\ limits[rlCall.ip].Requests <= RequestsPerMinute + BurstSize

\* C26: the rate limiter's cleanup (the only step of this specification that
\* makes no call and leaves the clock) removes an entry exactly when its
\* ResetAt is more than two hours before now, adds none, and leaves every
\* entry it keeps as it was.
C26_CleanupStale ==
    [][(rateEnabled /\ rlCall'.op = "none" /\ now' = now) =>
          /\ DOMAIN limits' \subseteq DOMAIN limits
          /\ \A ip \in DOMAIN limits :
                 /\ (ip \notin DOMAIN limits') <=> (now - limits[ip].ResetAt > TwoHourTicks)
                 /\ ip \in DOMAIN limits' => limits'[ip] = limits[ip]]_vars

\* C26 witness: a cleanup has removed the entry of a key called earlier (its
\* window is still in the history) and has kept an entry whose ResetAt is
\* exactly two hours before now.
C26_Witness ==
    /\ rlCall.op = "none"
    /\ \E ip \in DOMAIN rlWin \ DOMAIN limits : now - rlWin[ip].end > TwoHourTicks
    /\ \E k \in DOMAIN limits : now - limits[k].ResetAt = TwoHourTicks

\* C34: an IsAllowed or AllowBurst call that is denied on an entry already
\* blocked leaves the entry as it was: Requests and ResetAt are not changed
\* and the entry stays blocked, so ResetAt is still the end of the window
\* fixed by the call that opened it, however many calls are denied.
C34_DeniedLeavesRecord ==
    [][\A ip \in IPs :
          (/\ rateEnabled
           /\ rlCall'.op \in {"IsAllowed", "AllowBurst"}
           /\ rlCall'.ip = ip
           /\ rlCall'.ret = FALSE
           /\ ip \in DOMAIN limits
           /\ limits[ip].Blocked) =>
              /\ limits'[ip].Requests = limits[ip].Requests
              /\ limits'[ip].ResetAt = limits[ip].ResetAt
              /\ limits'[ip].Blocked
              /\ limits'[ip].ResetAt = rlWin[ip].end]_vars

\* C34 witness: a call has just been denied at a later instant than the one
\* that opened the window, on a key blocked before it (the window counts at
\* least two calls more than were let through), and the entry's ResetAt is
\* still one minute after the opening.
C34_Witness ==
    /\ rlCall.op \in {"IsAllowed", "AllowBurst"}
    /\ rlCall.ret = FALSE
    /\ limits[rlCall.ip].Blocked
    /\ rlCall.n > limits[rlCall.ip].Requests
    /\ limits[rlCall.ip].ResetAt = now
    /\ rlWin[rlCall.ip].end = now

\* What a call of the given kind for ip returns at time t on the map q.
ReturnOn(q, op, ip, t) ==
    IF op = "GetRemaining"
    THEN IF ip \notin DOMAIN q THEN RequestsPerMinute
         ELSE IF t > q[ip].ResetAt THEN RequestsPerMinute
         ELSE IF RequestsPerMinute - q[ip].Requests < 0 THEN 0
         ELSE RequestsPerMinute - q[ip].Requests
    ELSE IF ip \notin DOMAIN q THEN TRUE
    ELSE IF t > q[ip].ResetAt THEN TRUE
    ELSE IF q[ip].Blocked THEN FALSE
    ELSE q[ip].Requests + 1 <= (IF op = "IsAllowed" THEN RequestsPerMinute
                                ELSE RequestsPerMinute + BurstSize)

\* C35: cleanup cannot be seen by the callers.  Every IsAllowed, AllowBurst
\* and GetRemaining call returns what the same call returns on the map of a
\* service that made the same calls and never ran cleanup; the entries the
\* map holds are the entries of that map, and those it lacks are entries
\* whose window is over; a cleanup step removes no entry whose window is
\* not over, so a key blocked in its window stays blocked.
C35_CleanupTransparent ==
    /\ [](rateEnabled =>
             /\ DOMAIN limits \subseteq DOMAIN rlKept
             /\ \A ip \in DOMAIN limits : limits[ip] = rlKept[ip]
             /\ \A ip \in DOMAIN rlKept \ DOMAIN limits : now > rlKept[ip].ResetAt)
    /\ [][/\ (rateEnabled /\ rlCall'.op \in {"IsAllowed", "AllowBurst", "GetRemaining"}) =>
              rlCall'.ret = ReturnOn(rlKept, rlCall'.op, rlCall'.ip, now)
          /\ (rateEnabled /\ rlCall'.op = "none" /\ now' = now) =>
              \A ip \in DOMAIN limits :
                  (now <= limits[ip].ResetAt) =>
                      (ip \in DOMAIN limits' /\ limits'[ip] = limits[ip])]_vars

\* C35 witness: GetRemaining has just returned RequestsPerMinute for a key
\* whose entry, blocked in a window now over, a cleanup has removed and the
\* map of the service without cleanup still holds.
C35_Witness ==
    /\ rlCall.op = "GetRemaining"
    /\ rlCall.ret = RequestsPerMinute
    /\ rlCall.ip \in DOMAIN rlKept \ DOMAIN limits
    /\ rlKept[rlCall.ip].Blocked

C2_CheckHeadroom ==
    (quotaEnabled /\ qCall.op = "CheckQuota") =>
        /\ qCall.ip \in DOMAIN quotas
        /\ quotas[qCall.ip].ResetTime >= now
        /\ LET remaining == DailyLimitMB - quotas[qCall.ip].UsedMB
           IN  /\ remaining <= 0 => qCall.ret = <<FALSE, 0>>
               /\ (remaining > 0 /\ qCall.req > remaining) => qCall.ret = <<FALSE, remaining>>
               /\ (remaining > 0 /\ qCall.req <= remaining) => qCall.ret = <<TRUE, remaining>>

\* C2 witness: after usage was added, a request larger than what remains has
\* been refused with the remaining amount (limit 100, used 60, request 50).
C2_Witness ==
    /\ quotaEnabled
    /\ qCall.op = "CheckQuota"
    /\ quotas[qCall.ip].UsedMB > 0
    /\ qCall.req > DailyLimitMB - quotas[qCall.ip].UsedMB
    /\ qCall.ret = <<FALSE, DailyLimitMB - quotas[qCall.ip].UsedMB>>
    /\ qCall.ret[2] > 0

\* C3 (as claimed): GetQuotaInfo reports as used exactly the MB added in the
\* key's current window: the sum of the AddUsage calls made since the last
\* reset instant passed, and 0 once a reset instant has passed.
C3_StatusIsWindowSum ==
    (quotaEnabled /\ qCall.op = "GetQuotaInfo") =>
        qCall.ret.used_mb = qSum[qCall.ip]

\* C9 (as claimed): a GetQuotaInfo made after the ResetTime of an entry with
\* usage has passed reports used 0 and a reset time in the future.
C9_StatusLazyReset ==
    (quotaEnabled /\ qCall.op = "GetQuotaInfo" /\ qCall.ip \in DOMAIN quotas
                  /\ quotas[qCall.ip].UsedMB > 0
                  /\ QuotaWindowPassed(quotas[qCall.ip], now)) =>
        /\ qCall.ret.used_mb = 0
        /\ qCall.ret.reset_time > now

\* C5: while no reset instant has passed since the first AddUsage(ip, 1) for
\* a key began, the key's UsedMB equals the number of AddUsage(ip, 1) calls
\* that have returned, whatever the interleaving of the callers; a key with
\* no returned call has no entry.
C5_NoLostUpdate ==
    \A ip \in IPs :
        ~crossed[ip] =>
            IF ip \in DOMAIN quotas THEN quotas[ip].UsedMB = done[ip] /\ done[ip] > 0
            ELSE done[ip] = 0

\* C5 witness: two calls on one key contend within the window, one holding
\* the lock and about to write, the other waiting for the lock, after an
\* earlier call on the key has returned.
C5_Witness ==
    /\ ~crossed["ip1"]
    /\ done["ip1"] >= 1
    /\ quotas["ip1"].UsedMB = done["ip1"]
    /\ \E p, q \in Callers :
           /\ pc[p] = "write" /\ arg[p] = "ip1" /\ mu = p
           /\ pc[q] = "lock" /\ arg[q] = "ip1"

\* C16 (as claimed): whenever an entry is created or its ResetTime is set anew
\* at time now, the ResetTime falls on the configured reset instant of a day,
\* is strictly later than now and at most one day later.
C16_ResetTimeInFuture ==
    [][\A ip \in DOMAIN quotas' :
          (ip \notin DOMAIN quotas \/ quotas'[ip].ResetTime # quotas[ip].ResetTime) =>
              /\ IsResetInstant(quotas'[ip].ResetTime)
              /\ quotas'[ip].ResetTime > now
              /\ quotas'[ip].ResetTime <= now + DayTicks]_vars

\* C22: with quota enabled, AddUsage(ip, sizeMB) leaves the key with an entry
\* whose UsedMB is its former UsedMB (0 when it had no entry) plus sizeMB,
\* above DailyLimitMB or not; a CheckQuota that finds UsedMB above
\* DailyLimitMB returns (false, 0); GetQuotaInfo never reports a negative
\* remaining_mb and reports 0 when UsedMB is above DailyLimitMB.
C22_CommitUnchecked ==
    [][\A ip \in IPs :
          (quotaEnabled /\ qCall'.op # "none" /\ qCall'.ip = ip) =>
              /\ qCall'.op = "AddUsage" =>
                     /\ ip \in DOMAIN quotas'
                     /\ quotas'[ip].UsedMB = UsedOf(quotas, ip) + qCall'.size
              /\ (qCall'.op = "CheckQuota" /\ quotas'[ip].UsedMB > DailyLimitMB) =>
                     qCall'.ret = <<FALSE, 0>>
              /\ qCall'.op = "GetQuotaInfo" =>
                     /\ qCall'.ret.remaining_mb >= 0
                     /\ UsedOf(quotas, ip) > DailyLimitMB => qCall'.ret.remaining_mb = 0]_vars

\* C22 witness: an AddUsage has just taken a key's UsedMB from below
\* DailyLimitMB to above it.
C22_Witness ==
    /\ quotaEnabled
    /\ qCall.op = "AddUsage"
    /\ qCall.size > 0
    /\ quotas[qCall.ip].UsedMB > DailyLimitMB
    /\ quotas[qCall.ip].UsedMB - qCall.size < DailyLimitMB

\* The first reset instant after t.
NextResetInstant(t) ==
    CHOOSE x \in (t + 1)..(t + DayTicks) : IsResetInstant(x)

\* C27 (as claimed): checkAndResetQuotas (the only step of this specification
\* that makes no call and leaves the clock) gives every entry whose ResetTime
\* is before now UsedMB = 0 and the next reset instant as ResetTime, read or
\* not, leaves every other entry as it was, and adds or removes none.
C27_SweepResets ==
    [][(quotaEnabled /\ qCall'.op = "none" /\ now' = now) =>
          /\ DOMAIN quotas' = DOMAIN quotas
          /\ \A ip \in DOMAIN quotas :
                 IF now > quotas[ip].ResetTime
                 THEN /\ quotas'[ip].UsedMB = 0
                      /\ quotas'[ip].ResetTime = NextResetInstant(now)
                 ELSE quotas'[ip] = quotas[ip]]_vars

\* C32 (as claimed): usage added after an entry's ResetTime has passed and
\* before the entry is reset belongs to the new window: a reset of the entry,
\* by CheckQuota for its key or by checkAndResetQuotas, leaves UsedMB at the
\* MB added since the last reset instant passed, without the usage of the
\* window before.
C32_CommitInNewWindow ==
    [][\A ip \in DOMAIN quotas :
          (/\ quotaEnabled
           /\ now > quotas[ip].ResetTime
           /\ \/ (qCall'.op = "CheckQuota" /\ qCall'.ip = ip)
              \/ (qCall'.op = "none" /\ now' = now)) =>
              quotas'[ip].UsedMB = qSum[ip]]_vars

(***************************************************************************)
(* Claims on the storage manager (SpecStorage).                            *)
(***************************************************************************)

\* C4 (amended): after SaveFile(id) stamped the record's expiry at t0, the
\* map holds the record at every time up to and including t0 + TTL and
\* GetFile(id) returns it; GetFile returns nothing exactly when the map has
\* no record; a cleanupExpiredFiles at a time up to and including t0 + TTL
\* leaves the record, one at a time after t0 + TTL removes it.
C4_LookupUntilSwept ==
    /\ [](\A id \in FileIDs :
             /\ (regAt[id] >= 0 /\ now <= regAt[id] + FileTTLTicks) => id \in DOMAIN files
             /\ (sCall.op = "GetFile" /\ sCall.id = id) =>
                    ((sCall.ret = << >>) <=> (id \notin DOMAIN files)))
    /\ [][sCall'.op = "cleanup" =>
             \A id \in DOMAIN files :
                 (now > regAt[id] + FileTTLTicks) <=> (id \notin DOMAIN files')]_vars

\* C4 witness: a sweep has just run at the expiry instant t0 + TTL of a record
\* and has left it in the map.
C4_Witness ==
    /\ sCall.op = "cleanup"
    /\ \E id \in DOMAIN files : /\ regAt[id] >= 0
                                /\ now = regAt[id] + FileTTLTicks

\* C4 (as claimed): a cleanupExpiredFiles at any time t >= t0 + TTL, t0 + TTL
\* itself included, removes the record registered at t0.
C4_SweepAtExpiryRemoves ==
    [][sCall'.op = "cleanup" =>
          \A id \in DOMAIN files :
              (now >= regAt[id] + FileTTLTicks) => (id \notin DOMAIN files')]_vars

\* C10 (as claimed): a cleanupExpiredFiles before a record's ExpiresAt leaves
\* the record and its file in place; one after ExpiresAt removes the record
\* and, unless os.Remove failed, leaves no file at its path.
C10_SweepKeepsUnexpiredFile ==
    [][sCall'.op = "cleanup" =>
          \A id \in DOMAIN files :
              /\ (now < files[id].ExpiresAt) =>
                     /\ id \in DOMAIN files'
                     /\ files[id].FilePath \in disk => files[id].FilePath \in disk'
              /\ (now > files[id].ExpiresAt /\ files[id].FilePath \notin sCall'.failed) =>
                     /\ id \notin DOMAIN files'
                     /\ files[id].FilePath \notin disk']_vars

\* C11: cleanupExpiredFiles drops every expired record from the map whatever
\* os.Remove did with its file (removed, already absent, failed), so a failure
\* on one record does not keep another expired record of the same sweep.
C11_SweepDropsEveryExpired ==
    [][sCall'.op = "cleanup" =>
          \A id \in DOMAIN files :
              (now > files[id].ExpiresAt) => (id \notin DOMAIN files')]_vars

\* C11 witness: a sweep has just found two expired records, os.Remove failed
\* for one of them and both have left the map.
C11_Witness ==
    /\ sCall.op = "cleanup"
    /\ sCall.failed # {}
    /\ Cardinality(sCall.expired) = 2
    /\ sCall.expired \cap DOMAIN files = {}
    /\ sCall.failed \subseteq disk

\* C17 (as claimed): GET /api/download/:id sends the file only while the
\* record's TTL has not elapsed; once now is after the record's ExpiresAt the
\* answer is 404 not_found.
C17_ExpiredNotServed ==
    (aCall.op = "GetFile" /\ aCall.status = 200) =>
        now <= files[aCall.id].ExpiresAt

\* C23: SaveFile(id, file) stores under id the record the call stamped (its
\* FilePath, Size, CreatedAt and ExpiresAt), whether or not the id had a
\* record; the map then has the ids it had and id, so on an id already
\* present the number of records has not grown; the records of the other
\* ids are as they were.  (The registry is a map: one record per id.)
C23_RegisterOverwrites ==
    [][sCall'.op = "SaveFile" =>
          LET id == sCall'.id
              q == req[sCall'.r]
          IN  /\ files'[id] = [FilePath |-> q.FilePath, Size |-> q.Size,
                               CreatedAt |-> q.CreatedAt, ExpiresAt |-> q.ExpiresAt]
              /\ DOMAIN files' = DOMAIN files \cup {id}
              /\ id \in DOMAIN files => Cardinality(DOMAIN files') = Cardinality(DOMAIN files)
              /\ \A k \in DOMAIN files \ {id} : files'[k] = files[k]]_vars

\* C23 witness: a SaveFile has just replaced the record of an id by one with
\* another path and a later expiry, and the map holds that one record.
C23_Witness ==
    /\ sCall.op = "SaveFile"
    /\ sCall.was # << >>
    /\ sCall.was[1].FilePath # files[sCall.id].FilePath
    /\ sCall.was[1].ExpiresAt < files[sCall.id].ExpiresAt
    /\ DOMAIN files = {sCall.id}

\* C24 (as claimed): every record in the map has ExpiresAt = CreatedAt + TTL,
\* and a record's ExpiresAt changes only by a SaveFile for its id: GetFile,
\* the GET handler, sweeps that leave it and SaveFile of other ids leave it
\* as it is.
C24_ExpiryFixed ==
    /\ [](\A id \in DOMAIN files : files[id].ExpiresAt = files[id].CreatedAt + FileTTLTicks)
    /\ [][\A id \in DOMAIN files \cap DOMAIN files' :
              ~(sCall'.op = "SaveFile" /\ sCall'.id = id) =>
                  files'[id].ExpiresAt = files[id].ExpiresAt]_vars

\* C31 (as claimed): every record of the map whose ExpiresAt has not passed
\* has its file on the disk, two records on one path included: no sweep
\* removes a file that an unexpired record still points to.
C31_UnexpiredBacked ==
    \A id \in DOMAIN files :
        now <= files[id].ExpiresAt => files[id].FilePath \in disk

(***************************************************************************)
(* Claims on the admission path (SpecAdmission).                           *)
(***************************************************************************)

\* C6: a request calls AddUsage only after its fetch has succeeded and its
\* SaveFile has stored the record; a client's usage grows only in such a
\* step; a request that answers 500 (fetch failed, file rejected, write
\* failed) has made no AddUsage and its last step leaves the quotas as they
\* were.
C6_CommitAfterRegister ==
    [][/\ \A r \in Reqs :
              (hist'[r].committed /\ ~hist[r].committed) =>
                  (hist[r].fetched /\ hist[r].registered /\ qCall'.op = "AddUsage")
       /\ \A ip \in IPs :
              UsedOf(quotas', ip) > UsedOf(quotas, ip) =>
                  \E r \in Reqs : /\ req[r].ip = ip
                                  /\ hist'[r].committed /\ ~hist[r].committed
       /\ \A r \in Reqs :
              (rpc[r] # "idle" /\ aCall'.op = "StartDownload" /\ aCall'.r = r /\ aCall'.status = 500) =>
                  (~hist[r].committed /\ quotas' = quotas)]_vars

\* C6 witness: a request has just answered 500 while another request of the
\* same client, registered, has made its AddUsage.
C6_Witness ==
    /\ aCall.op = "StartDownload"
    /\ aCall.status = 500
    /\ \E r \in Reqs : /\ rpc[r] = "committed"
                       /\ req[r].ip = aCall.ip
                       /\ hist[r].registered
                       /\ UsedOf(quotas, aCall.ip) > 0

\* The reasons of a denial.
DenialReasons ==
    {"RateLimited", "QuotaExceeded", "SizeExceeded", "NotFound"}

\* C18 (as claimed): two answers given for different reasons, one of them a
\* denial reason and the other a denial reason or UpstreamFailure, differ in
\* their status or their error code.  Stated on two answers in a row.
C18_DenialsDistinct ==
    [][(/\ aCall.op = "StartDownload"
        /\ aCall'.op = "StartDownload"
        /\ aCall.reason # aCall'.reason
        /\ {aCall.reason, aCall'.reason} \subseteq DenialReasons \cup {"UpstreamFailure"}
        /\ {aCall.reason, aCall'.reason} \cap DenialReasons # {}) =>
           <<aCall.status, aCall.error>> # <<aCall'.status, aCall'.error>>]_vars

(***************************************************************************)
(* Claims on a burst of requests of one client (SpecBurst).                *)
(***************************************************************************)

\* C33 (as claimed): whatever the interleaving of a client's concurrent
\* requests, the MB added to its usage within one quota window never exceed
\* DailyLimitMB by more than MaxVideoSizeMB, the size of one file of the
\* maximum size.
C33_OvershootBounded ==
    \A ip \in IPs :
        /\ qSum[ip] <= DailyLimitMB + MaxVideoSizeMB
        /\ UsedOf(quotas, ip) <= DailyLimitMB + MaxVideoSizeMB

(***************************************************************************)
(* Claims on the cleanup goroutine (SpecLoop).                             *)
(***************************************************************************)

\* C12 (as claimed): once Stop has been called on a started manager, the
\* cleanupRoutine goroutine eventually returns.
C12_StopObserved ==
    (stop # "no") ~> (loop = "stopped")

\* The paths the records of the map point to.
TrackedPaths ==
    {files[id].FilePath : id \in DOMAIN files}

\* The paths written by a Download whose SaveFile has not yet inserted its
\* record.
InFlightPaths ==
    {req[r].FilePath : r \in {q \in Reqs : rpc[q] \in {"written", "created", "stamped"}}}

\* C39 (as claimed): no SaveFile and no sweep, a SaveFile on an id whose
\* record points to another path included, leaves on disk a file that no
\* record tracks (the sweep removes only the paths of records, so such a file
\* is never deleted): from a state where every file on disk is the file of a
\* record or of a Download about to register it, every step leads to such a
\* state, the files on which os.Remove has just failed set aside.
C39_NoOrphanFile ==
    [][LET failed == IF sCall'.op = "cleanup" THEN sCall'.failed ELSE {}
       IN  (disk \subseteq TrackedPaths \cup InFlightPaths) =>
               ((disk' \ failed) \subseteq (TrackedPaths' \cup InFlightPaths'))]_vars

(***************************************************************************)
(* Claims on the services' goroutines and Stop (SpecStop).                 *)
(***************************************************************************)

\* C38 (as claimed): every call of Stop on the quota service and on the rate
\* limiter returns, a second call made after the goroutine has returned and
\* a call on a disabled service included; and once a call has returned the
\* service's goroutine, if one was started, has returned.
C38_StopReturns ==
    \A s \in Services :
        /\ (stopping[s] = "send") ~> (stopping[s] = "idle")
        /\ [](stops[s] > 0 => routine[s] \in {"stopped", "none"})

(***************************************************************************)
(* Claims on the concurrent CheckQuota calls (SpecCheck).                  *)
(***************************************************************************)

\* C13 (as claimed): in the first window, once no CheckQuota call is running
\* the key's UsedMB is the sum of the MB added by AddUsage, and what a
\* CheckQuota returns is what it returns on a usage between the sum added
\* when it began and the sum added when it returned.
C13_Linearizable ==
    (now <= ResetOffset) =>
        /\ (\A p \in Checkers : cpc[p] = "idle") => UsedOf(quotas, Key) = qSum[Key]
        /\ (qCall.op = "CheckQuota") =>
               \E u \in qCall.sum0 .. qSum[Key] :
                   qCall.ret = CheckQuotaResult(u, qCall.req)

\* C14 (as claimed): a CheckQuota that resets the map's entry of the key does
\* so on an entry whose window has elapsed, so it erases no usage added since
\* an earlier reset of the same window.
C14_ResetOnce ==
    [][\A p \in Checkers :
          (cpc[p] = "reset" /\ cpc'[p] = "read" /\ cl[p].ent = << >>) =>
              (quotas'[Key].UsedMB < quotas[Key].UsedMB => now > quotas[Key].ResetTime)]_vars

\* C30 (as claimed): the key's UsedMB goes down only in a step made after the
\* entry's ResetTime (a window reset), goes up only by an AddUsage, and is
\* left as it is by every step of a CheckQuota and by GetQuotaInfo while the
\* entry's ResetTime has not passed.
C30_UsageMonotonic ==
    [][/\ UsedOf(quotas', Key) > UsedOf(quotas, Key) => qCall'.op = "AddUsage"
       /\ Key \in DOMAIN quotas =>
              /\ UsedOf(quotas', Key) < quotas[Key].UsedMB => now > quotas[Key].ResetTime
              /\ (now <= quotas[Key].ResetTime
                     /\ (qCall'.op \in {"CheckQuota", "GetQuotaInfo"} \/ cpc' # cpc)) =>
                     UsedOf(quotas', Key) = quotas[Key].UsedMB]_vars

(***************************************************************************)
(* Claims on the rate-limited admission path (SpecGate).                   *)
(***************************************************************************)

\* C25: a request comes to the point of Download's call of the worker only in
\* a step in which IsAllowed returned true for its client and, with quota
\* enabled, CheckQuota returned allowed for it; a fetch is made only from
\* that point, a SaveFile only after the fetch and an AddUsage only after the
\* SaveFile; a step in which IsAllowed returns false, or CheckQuota returns
\* not allowed, or that answers 429 or 402, makes no fetch and leaves the
\* files, the disk and the usage as they were.
C25_FetchAfterAdmission ==
    [][\A r \in StorReqs :
          /\ (rpc[r] # "admitted" /\ rpc'[r] = "admitted") =>
                 /\ rlCall'.op = "IsAllowed" /\ rlCall'.ret = TRUE
                 /\ quotaEnabled => (qCall'.op = "CheckQuota" /\ qCall'.ret[1] = TRUE
                                       /\ qCall'.ip = rlCall'.ip)
          /\ (hist'[r].fetched /\ ~hist[r].fetched) => rpc[r] = "admitted"
          /\ (hist'[r].registered /\ ~hist[r].registered) => hist[r].fetched
          /\ (hist'[r].committed /\ ~hist[r].committed) => hist[r].registered
          /\ (\/ (rlCall'.op = "IsAllowed" /\ rlCall'.ret = FALSE)
              \/ (qCall'.op = "CheckQuota" /\ qCall'.ret[1] = FALSE)
              \/ (aCall'.op = "StartDownload" /\ aCall'.status \in {429, 402})) =>
                 /\ rpc'[r] \in {"idle", "exhausted"}
                 /\ hist'[r] = NoHist
                 /\ files' = files /\ disk' = disk
                 /\ \A ip \in IPs : UsedOf(quotas', ip) <= UsedOf(quotas, ip)]_vars

\* C25 witness: with quota enabled a request has just been answered 429
\* while the client's usage, charged by an earlier admitted request, stands,
\* and nothing of the denied request is in progress.
C25_Witness ==
    /\ quotaEnabled
    /\ aCall.op = "StartDownload"
    /\ aCall.status = 429
    /\ rlCall.op = "IsAllowed" /\ rlCall.ret = FALSE
    /\ rpc["r1"] = "idle"
    /\ UsedOf(quotas, "ip1") > 0

\* sizeBytes / 1048576 rounded up to a whole number.
CeilMB(sizeBytes) ==
    (sizeBytes + MiB - 1) \div MiB

\* C37 (as claimed): the MB a request passes to AddUsage for its file are the
\* file's size in bytes divided by 1048576 and rounded up, for every size
\* above 0.
C37_CommitRoundsUp ==
    [][\A r \in StorReqs :
          (hist'[r].committed /\ ~hist[r].committed /\ req[r].Size > 0) =>
              (qCall'.op = "AddUsage" /\ qCall'.size = CeilMB(req[r].Size))]_vars

(***************************************************************************)
(* Claims on overlapping sweeps of the storage manager (SpecSweep).        *)
(***************************************************************************)

\* C28: when a cleanupExpiredFiles run deletes its deletedIds from the map,
\* every one of them is a record the map still holds and that is expired at
\* the run's now (no run removes what another has removed, so the numbers
\* removed add up to the number of expired records), and once it has deleted
\* them the map holds no record expired at its now (a second run at the same
\* instant finds nothing to remove), whether the runs follow each other or
\* overlap.
C28_SweepIdempotent ==
    [][\A p \in Sweepers :
          (spc[p] = "delete" /\ spc'[p] = "idle") =>
              /\ sl[p].ids \subseteq DOMAIN files
              /\ \A id \in sl[p].ids : Expired(files[id], sl[p].at)
              /\ \A id \in DOMAIN files' : ~Expired(files'[id], sl[p].at)]_vars

\* C28 witness: the timer's run holds the lock with an expired record in its
\* deletedIds while a ManualCleanup begun meanwhile waits for the lock.
C28_Witness ==
    /\ spc["timer"] = "delete"
    /\ sl["timer"].ids # {}
    /\ smu = "timer"
    /\ spc["manual"] = "lock"

\* C29 (as claimed): a cleanupExpiredFiles run does not hold the manager's
\* lock in the step in which it removes files from the disk.
C29_RemoveOutsideLock ==
    [][\A p \in Sweepers :
          (spc[p] = "scan" /\ spc'[p] = "delete" /\ disk' # disk) => smu # p]_vars

=============================================================================
